---- MODULE Spec2Model ----
(***************************************************************************)
(* Model of the AWS Bedrock Knowledge Base connector:                      *)
(*   src/aws_bedrock_kb_function.py  (class Pipe and its module helpers)   *)
(*   src/aws_bedrock_pipeline.py     (class Pipeline, the manifold variant)*)
(*                                                                         *)
(* Python values are encoded as follows.                                   *)
(*   Optional[T]   : None is <<>>, a present value x is <<x>>.             *)
(*   datetime text : a record naming the textual shape of the string and   *)
(*                   the numbers written in it (see Text below).           *)
(*   range string  : the sequence of its whitespace separated tokens.      *)
(***************************************************************************)
EXTENDS Integers, Sequences, FiniteSets, TLC

VARIABLES
    fn_call,              \* a helper function under test and its argument
    fn_result,            \* None, or Some(value returned by that function)
    variant,              \* "Pipe" (function) or "Pipeline" (manifold pipeline)
    valves,               \* self.valves
    clients_initialized,  \* self._clients_initialized
    bedrock_client,       \* self.bedrock_client: None, or Some(service name)
    bedrock_agent_client, \* self.bedrock_agent_client: None, or Some(service name)
    pc,                   \* position of the request being handled
    body,                 \* the request body, body["messages"] is mutated
    datetime_refs,        \* local of _generate_metadata_filter
    metadata_filter,      \* local of query_knowledge_base / Pipeline.pipe
    retrieved_results,    \* local of query_knowledge_base / Pipeline.pipe
    context,              \* the document blocks assembled so far
    kb_response,          \* value returned by query_knowledge_base
    outcome,              \* how the call ended: returned value or escaped exception
    last_response,        \* what the backend answered to the latest call
    trace,                \* the steps of the current request, oldest first
    last_emit_time,       \* self.last_emit_time
    now,                  \* what time.time() reads, in clock ticks
    emit_calls,           \* per query: None, or Some(locals of its emit_status
                          \* call that is suspended in the await of the emitter)
    status_log            \* the emit_status calls made so far, oldest first

\* the client state of the object: the flag and the two handles
client_vars == <<clients_initialized, bedrock_client, bedrock_agent_client>>

vars == <<fn_call, fn_result, variant, valves, client_vars, pc, body,
          datetime_refs, metadata_filter, retrieved_results, context,
          kb_response, outcome, last_response, trace,
          last_emit_time, now, emit_calls, status_log>>

\* the state of emit_status, which only Pipe.pipe and the emit_status
\* specification touch
status_vars == <<last_emit_time, now, emit_calls, status_log>>

query_vars == <<variant, valves, client_vars, pc, body, datetime_refs,
                metadata_filter, retrieved_results, context, kb_response,
                outcome, last_response, trace, status_vars>>

fn_vars == <<fn_call, fn_result, status_vars>>

----------------------------------------------------------------------------
(* Bounds of the model *)

\* latest calendar year written in a datetime text
MaxYear == 2025
\* longest range string, in tokens, that is enumerated exhaustively
MaxTokens == 5
\* most passages in one retrieval response
MaxResults == 2
\* most items in one date/time extraction answer
MaxItems == 3

\* longest message list of a request
MaxMessages == 3

\* longest emit_interval, in clock ticks
MaxInterval == 2

\* clock ticks that pass while status calls are made
MaxTicks == 2

\* most emit_status calls made on one instance
MaxCalls == 3

\* longest name, in pieces (tokens and whitespace runs)
MaxPieces == 5

\* longest user query, in atoms
MaxAtoms == 3

\* most resolved ranges of one query
MaxRefs == 2

\* most requests recorded while the valves are changed
MaxRequests == 2

\* most calls of _initialize_clients on one object
MaxInitCalls == 3

\* most characters of the knowledge_base_ids valve
MaxIdChars == 5

\* most characters of the knowledge_base_names valve
MaxNameChars == 3

\* largest max_history_messages
MaxHistory == 2

----------------------------------------------------------------------------
(* Python Optional *)

None == <<>>

Some(x) == <<x>>

IsNone(o) == o = <<>>

----------------------------------------------------------------------------
(* Datetime texts.  shape is the layout of the string:                     *)
(*   isoZ    "Y-a-bTh:mi:sZ"          isoFracZ "Y-a-bTh:mi:s.usZ"          *)
(*   space   "Y-a-b h:mi:s"           date     "Y-a-b"                     *)
(*   slash   "a/b/Y"                  longMonth  "<Month a> b, Y"          *)
(*   shortMonth "<Mon a> b, Y"        isoOff   "Y-a-bTh:mi:s+HH:MM"        *)
(*   clock   "h:mi:s"                 year     "Y"                         *)
(*   monthLong "<Month a>"            monthShort "<Mon a>"                 *)
(*   dayComma "b,"                                                         *)
(*   any other shape is a single word written as the shape says, the       *)
(*   keywords from and to in their capitalisations among them              *)
(* off is the written UTC offset in minutes, us the written microseconds.  *)
(* The shapes space, longMonth and shortMonth are texts of several words:  *)
(* date and clock, month name and dayComma and year.                       *)

Text(shape, Y, a, b, h, mi, s, us, off) ==
    [shape |-> shape, Y |-> Y, a |-> a, b |-> b, h |-> h, mi |-> mi,
     s |-> s, us |-> us, off |-> off]

Word(w) == Text(w, 0, 0, 0, 0, 0, 0, 0, 0)

DaysInMonth(y, m) ==
    LET IsLeap ==
            (y % 4 = 0) /\ ((y % 100 # 0) \/ (y % 400 = 0))
    IN
    IF m = 2 THEN (IF IsLeap THEN 29 ELSE 28)
    ELSE IF m \in {4, 6, 9, 11} THEN 30 ELSE 31

RECURSIVE DaysBeforeMonth(_, _)
DaysBeforeMonth(y, m) ==
    IF m = 1 THEN 0 ELSE DaysBeforeMonth(y, m - 1) + DaysInMonth(y, m - 1)

\* proleptic Gregorian ordinal of 1970-01-01
EpochOrdinal == 719163

\* seconds between 1970-01-01T00:00:00 and the wall clock reading, no offset applied
WallSeconds(y, m, d, h, mi, s) ==
    LET ToOrdinal ==
            LET DaysBeforeYear ==
                    (y - 1) * 365 + ((y - 1) \div 4) - ((y - 1) \div 100) + ((y - 1) \div 400)
            IN
            DaysBeforeYear + DaysBeforeMonth(y, m) + d
    IN
    (ToOrdinal - EpochOrdinal) * 86400 + h * 3600 + mi * 60 + s

\* datetime(...) constructor range checks; a failure is the ValueError of strptime
ValidFields(y, m, d, h, mi, s) ==
    /\ y \in 1..9999
    /\ m \in 1..12
    /\ d >= 1
    /\ d <= DaysInMonth(y, IF m \in 1..12 THEN m ELSE 1)
    /\ h \in 0..23
    /\ mi \in 0..59
    /\ s \in 0..59

\* a parsed datetime object: wall clock fields, microsecond, tzinfo (None or minutes)
DateTime(y, m, d, h, mi, s, us, tz) ==
    [year |-> y, month |-> m, day |-> d, hour |-> h, minute |-> mi,
     second |-> s, microsecond |-> us, tzinfo |-> tz]

\* the format list of parse_datetime_to_formats, in the order it is tried
formats == <<"%Y-%m-%dT%H:%M:%SZ", "%Y-%m-%dT%H:%M:%S.%fZ", "%Y-%m-%d %H:%M:%S",
             "%Y-%m-%d", "%d/%m/%Y", "%m/%d/%Y", "%B %d, %Y", "%b %d, %Y",
             "%Y-%m-%dT%H:%M:%S%z">>

\* datetime.strptime(t, fmt): Some(datetime) or None for ValueError
strptime(t, fmt) ==
    CASE fmt = "%Y-%m-%dT%H:%M:%SZ" ->
           IF t.shape = "isoZ" /\ ValidFields(t.Y, t.a, t.b, t.h, t.mi, t.s)
           THEN Some(DateTime(t.Y, t.a, t.b, t.h, t.mi, t.s, 0, None)) ELSE None
      [] fmt = "%Y-%m-%dT%H:%M:%S.%fZ" ->
           IF t.shape = "isoFracZ" /\ ValidFields(t.Y, t.a, t.b, t.h, t.mi, t.s)
           THEN Some(DateTime(t.Y, t.a, t.b, t.h, t.mi, t.s, t.us, None)) ELSE None
      [] fmt = "%Y-%m-%d %H:%M:%S" ->
           IF t.shape = "space" /\ ValidFields(t.Y, t.a, t.b, t.h, t.mi, t.s)
           THEN Some(DateTime(t.Y, t.a, t.b, t.h, t.mi, t.s, 0, None)) ELSE None
      [] fmt = "%Y-%m-%d" ->
           IF t.shape = "date" /\ ValidFields(t.Y, t.a, t.b, 0, 0, 0)
           THEN Some(DateTime(t.Y, t.a, t.b, 0, 0, 0, 0, None)) ELSE None
      [] fmt = "%d/%m/%Y" ->
           IF t.shape = "slash" /\ ValidFields(t.Y, t.b, t.a, 0, 0, 0)
           THEN Some(DateTime(t.Y, t.b, t.a, 0, 0, 0, 0, None)) ELSE None
      [] fmt = "%m/%d/%Y" ->
           IF t.shape = "slash" /\ ValidFields(t.Y, t.a, t.b, 0, 0, 0)
           THEN Some(DateTime(t.Y, t.a, t.b, 0, 0, 0, 0, None)) ELSE None
      [] fmt = "%B %d, %Y" ->
           \* May is written the same in full and abbreviated
           IF (t.shape = "longMonth" \/ (t.shape = "shortMonth" /\ t.a = 5))
              /\ ValidFields(t.Y, t.a, t.b, 0, 0, 0)
           THEN Some(DateTime(t.Y, t.a, t.b, 0, 0, 0, 0, None)) ELSE None
      [] fmt = "%b %d, %Y" ->
           IF (t.shape = "shortMonth" \/ (t.shape = "longMonth" /\ t.a = 5))
              /\ ValidFields(t.Y, t.a, t.b, 0, 0, 0)
           THEN Some(DateTime(t.Y, t.a, t.b, 0, 0, 0, 0, None)) ELSE None
      [] fmt = "%Y-%m-%dT%H:%M:%S%z" ->
           \* %z takes +HH:MM and the letter Z, which is UTC
           IF t.shape \in {"isoOff", "isoZ"} /\ ValidFields(t.Y, t.a, t.b, t.h, t.mi, t.s)
           THEN Some(DateTime(t.Y, t.a, t.b, t.h, t.mi, t.s, 0,
                              Some(IF t.shape = "isoZ" THEN 0 ELSE t.off)))
           ELSE None

\* the for loop over formats: the first format that parses wins
RECURSIVE TryFormats(_, _)
TryFormats(t, i) ==
    IF i > Len(formats) THEN None
    ELSE IF ~IsNone(strptime(t, formats[i])) THEN strptime(t, formats[i])
    ELSE TryFormats(t, i + 1)

\* parse_datetime_to_formats(datetime_str) -> (iso_format, unix_timestamp)
parse_datetime_to_formats(t) ==
    \* dt.strftime("%Y-%m-%dT%H:%M:%SZ"): the wall clock fields followed by a literal Z
    LET strftime(dt) ==
            Text("isoZ", dt.year, dt.month, dt.day, dt.hour, dt.minute, dt.second, 0, 0)
    IN
    \* int(dt.timestamp()) of an aware datetime: the float is truncated toward zero
    LET timestamp_int(dt) ==
            LET whole == WallSeconds(dt.year, dt.month, dt.day, dt.hour, dt.minute, dt.second)
                           - dt.tzinfo[1] * 60
            IN  IF whole < 0 /\ dt.microsecond > 0 THEN whole + 1 ELSE whole
    IN
    \* dt.replace(tzinfo=timezone.utc) when dt.tzinfo is None
    LET EnsureUtc(dt) ==
            IF IsNone(dt.tzinfo) THEN [dt EXCEPT !.tzinfo = Some(0)] ELSE dt
    IN
    LET parsed == TryFormats(t, 1) IN
    IF IsNone(parsed) THEN <<None, None>>
    ELSE LET dt == EnsureUtc(parsed[1])
         IN  <<Some(strftime(dt)), Some(timestamp_int(dt))>>

----------------------------------------------------------------------------
(* parse_datetime_range *)

\* the keywords of the pattern under re.IGNORECASE: every capitalisation
IsFrom(tok) ==
    tok.shape \in {"from", "From", "fRom", "frOm", "froM", "FRom", "FrOm", "FroM",
                   "fROm", "fRoM", "frOM", "FROm", "FRoM", "FrOM", "fROM", "FROM"}

IsTo(tok) == tok.shape \in {"to", "To", "tO", "TO"}

\* a range_str argument: a str given by its tokens and by the positions i
\* at which the whitespace between token i and token i + 1 holds a line
\* break (none in RangeStr(toks)), or a value that is not a str, on which
\* range_str.strip() raises AttributeError
RangeStr(toks) == [isstr |-> TRUE, toks |-> toks, breaks |-> {}]

NotAString == [isstr |-> FALSE, toks |-> <<>>, breaks |-> {}]

\* the text of a regex group, its tokens joined by the whitespace between
\* them: a date and a clock are a text of shape space, a month name, a
\* dayComma and a year a text of shape longMonth or shortMonth; any other
\* text of several words is one that no format parses
GroupText(toks) ==
    LET \* the words of one token
        words(t) ==
            CASE t.shape = "space" ->
                   <<Text("date", t.Y, t.a, t.b, 0, 0, 0, 0, 0),
                     Text("clock", 0, 0, 0, t.h, t.mi, t.s, 0, 0)>>
              [] t.shape \in {"longMonth", "shortMonth"} ->
                   <<Text(IF t.shape = "longMonth" THEN "monthLong" ELSE "monthShort",
                          0, t.a, 0, 0, 0, 0, 0, 0),
                     Text("dayComma", 0, 0, t.b, 0, 0, 0, 0, 0),
                     Text("year", t.Y, 0, 0, 0, 0, 0, 0, 0)>>
              [] OTHER -> <<t>>
        RECURSIVE all_words(_)
        all_words(ts) ==
            IF ts = <<>> THEN <<>> ELSE words(Head(ts)) \o all_words(Tail(ts))
        \* the text that the words w make
        joined(w) ==
            IF Len(w) = 1 THEN w[1]
            ELSE IF Len(w) = 2 /\ w[1].shape = "date" /\ w[2].shape = "clock"
            THEN Text("space", w[1].Y, w[1].a, w[1].b, w[2].h, w[2].mi, w[2].s, 0, 0)
            ELSE IF /\ Len(w) = 3
                    /\ w[1].shape \in {"monthLong", "monthShort"}
                    /\ w[2].shape = "dayComma"
                    /\ w[3].shape = "year"
            THEN Text(IF w[1].shape = "monthLong" THEN "longMonth" ELSE "shortMonth",
                      w[3].Y, w[1].a, w[2].b, 0, 0, 0, 0, 0)
            ELSE Word("<several words>")
    IN
    joined(all_words(toks))

\* positions k of a token "to" that can end the lazy group 1 of
\* from\s+(.+?)\s+to\s+(.+): group 1 and group 2 are both non-empty
SplitPoints(toks) == {k \in 3..(Len(toks) - 1) : IsTo(toks[k])}

\* either_side_missing with `and` written for `or`
either_side_missing_and(start_iso, end_iso) == IsNone(start_iso) /\ IsNone(end_iso)

\* the check `if start_iso is None or end_iso is None`
either_side_missing(start_iso, end_iso) == IsNone(start_iso) \/ IsNone(end_iso)

\* parse_datetime_range(range_str) -> (start_iso, start_unix, end_iso, end_unix)
parse_datetime_range(range_str) ==
    \* re.match(r'from\s+(.+?)\s+to\s+(.+)', range_str.strip(), re.IGNORECASE):
    \* None, or Some(<<group(1), group(2)>>).  \s+ takes any whitespace; the
    \* dot takes no line break, so group 1 lies within one line and group 2
    \* ends at the first line break after its start; the match need not
    \* reach the end of the string
    LET match_range(toks, breaks) ==
            LET Min(S) ==
                    CHOOSE x \in S : \A y \in S : x <= y
                \* the groups when the token "to" at position k ends group 1
                \* and the line of group 2 ends with token m
                groups(k, m) ==
                    IF \E i \in 2..(k - 2) : i \in breaks
                    THEN None
                    ELSE Some(<<GroupText(SubSeq(toks, 2, k - 1)),
                                GroupText(SubSeq(toks, k + 1, m))>>)
                \* the last token of the line on which token k + 1 stands
                line_end(k) ==
                    Min({i \in (k + 1)..Len(toks) : i \in breaks \/ i = Len(toks)})
                split(k) == groups(k, line_end(k))
            IN
            IF Len(toks) >= 4 /\ IsFrom(toks[1]) /\ SplitPoints(toks) # {}
            THEN split(Min(SplitPoints(toks)))
            ELSE None
        \* the four values for the parsed start and end
        both(st, en) ==
            IF either_side_missing(st[1], en[1])
            THEN <<None, None, None, None>>
            ELSE <<st[1], st[2], en[1], en[2]>>
        \* the four values for the match m
        matched(m) ==
            IF IsNone(m) THEN <<None, None, None, None>>
            ELSE both(parse_datetime_to_formats(m[1][1]),
                      parse_datetime_to_formats(m[1][2]))
    IN
    IF ~range_str.isstr THEN <<None, None, None, None>>
    ELSE matched(match_range(range_str.toks, range_str.breaks))

----------------------------------------------------------------------------
(* Text returned by a model, JSON values                                    *)
(*   JSON value : [t |-> "null"], [t |-> "bool", b], [t |-> "num", n],      *)
(*                [t |-> "str", s], [t |-> "list", items],                  *)
(*                [t |-> "obj", members] with members a function from the   *)
(*                member names to JSON values                               *)
(*   model text : [fence, payload]; fence tells whether the text is wrapped *)
(*                in a ``` block ("plain"), a ```json block ("json") or not *)
(*                at all ("none"); payload is what is written inside, None  *)
(*                when that is not valid JSON                               *)

JNull == [t |-> "null"]

JBool(b) == [t |-> "bool", b |-> b]

JNum(n) == [t |-> "num", n |-> n]

JStr(str) == [t |-> "str", s |-> str]

JList(items) == [t |-> "list", items |-> items]

JObj(members) == [t |-> "obj", members |-> members]

JEmptyObj == JObj(<<>>)

\* Python truth value of a parsed JSON value (`not x` is its negation)
Truthy(j) ==
    CASE j.t = "null" -> FALSE
      [] j.t = "bool" -> j.b
      [] j.t = "num"  -> j.n # 0
      [] j.t = "str"  -> j.s # ""
      [] j.t = "list" -> Len(j.items) > 0
      [] j.t = "obj"  -> DOMAIN j.members # {}

ModelText(fence, payload) == [fence |-> fence, payload |-> payload]

\* _remove_markdown_code_blocks(text): the first fenced segment without its
\* language tag, or the text itself when it does not start with a fence
remove_markdown_code_blocks(text) ==
    IF text.fence \in {"plain", "json"}
    THEN ModelText("none", text.payload)
    ELSE text

\* json.loads(text): Some(value), or None for JSONDecodeError; a text that
\* still starts with a fence is not JSON
json_loads(text) == IF text.fence = "none" THEN text.payload ELSE None

\* Outcome of bedrock_client.invoke_model followed by reading
\* response_body['content'][0]['text']:
\*   [kind |-> "ClientError", code, message], [kind |-> "Exception"] (any
\*   other error of the call), [kind |-> "bad_envelope"] (body is not JSON or
\*   lacks content[0].text), [kind |-> "text", text |-> model text].
\* Of the message of a ClientError the model keeps the exception names that
\* its text mentions, as a set.
ClientError(code, message) == [kind |-> "ClientError", code |-> code, message |-> message]

OtherException == [kind |-> "Exception"]

BadEnvelope == [kind |-> "bad_envelope"]

TextResponse(text) == [kind |-> "text", text |-> text]

----------------------------------------------------------------------------
(* Pipe._extract_datetime_references                                        *)
(* An item of the extracted array is [isobj, original, parsed]: isobj is    *)
(* FALSE for an item that is not a JSON object; original and parsed are the *)
(* members of that name (None when missing).  original is a phrase of the   *)
(* query ([isstr |-> TRUE, s]) or a value that is not a string; parsed is a *)
(* range string.                                                            *)

RefItem(original, parsed) == [isobj |-> TRUE, original |-> original, parsed |-> parsed]

NonObjectItem == [isobj |-> FALSE, original |-> None, parsed |-> None]

Phrase(str) == [isstr |-> TRUE, s |-> str]

\* the dictionary appended to processed_refs
ProcessedRef(item, r) ==
    [original |-> IF IsNone(item.original) THEN Phrase("") ELSE item.original[1],
     start_iso |-> r[1][1], start_unix |-> r[2][1],
     end_iso |-> r[3][1], end_unix |-> r[4][1]]

\* the loop `for ref in datetime_refs` from item i on, acc being processed_refs:
\* Some(processed_refs), or None when ref.get raises AttributeError
RECURSIVE process_refs(_, _, _)
process_refs(items, i, acc) ==
    \* the check before processed_refs.append
    LET range_complete(r) ==
            ~IsNone(r[1]) /\ ~IsNone(r[3]) /\ ~IsNone(r[2]) /\ ~IsNone(r[4])
    IN
    \* `if range_str:` for the value of ref.get('parsed')
    LET range_str_truthy(parsed) ==
            /\ ~IsNone(parsed)
            /\ (parsed[1].isstr => parsed[1].toks # <<>>)
    IN
    IF i > Len(items) THEN Some(acc)
    ELSE IF ~items[i].isobj THEN None
    ELSE IF ~range_str_truthy(items[i].parsed) THEN process_refs(items, i + 1, acc)
    ELSE LET r == parse_datetime_range(items[i].parsed[1])
         IN  IF range_complete(r)
             THEN process_refs(items, i + 1, Append(acc, ProcessedRef(items[i], r)))
             ELSE process_refs(items, i + 1, acc)

\* _extract_datetime_references, from the outcome of its invoke_model call to
\* the list under 'datetime_refs'; both except clauses return the empty list
extract_datetime_references(resp) ==
    \* iterating over json.loads(extraction_text): a list gives its items; an
    \* empty object or empty string gives nothing; a non-empty object or string
    \* gives str elements; null, numbers and booleans are not iterable (None)
    LET iterate_refs(j) ==
            CASE j.t = "list" -> Some(j.items)
              [] j.t = "obj"  -> Some([k \in 1..Cardinality(DOMAIN j.members) |-> NonObjectItem])
              [] j.t = "str"  -> Some(IF j.s = "" THEN <<>> ELSE <<NonObjectItem>>)
              [] OTHER        -> None
    IN
    IF resp.kind # "text" THEN <<>>
    ELSE LET j == json_loads(remove_markdown_code_blocks(resp.text)) IN
         IF IsNone(j) THEN <<>>
         ELSE LET it == iterate_refs(j[1]) IN
              IF IsNone(it) THEN <<>>
              ELSE LET p == process_refs(it[1], 1, <<>>)
                   IN  IF IsNone(p) THEN <<>> ELSE p[1]

----------------------------------------------------------------------------
(* Exceptions: the result of a piece of code is Ok(value) or Raise(name,    *)
(* names); names is the set of exception names that occur in str(e): for a  *)
(* ClientError, "An error occurred (<code>) when calling the <operation>    *)
(* operation: <message>", the error code and the names in the message; the  *)
(* empty set for the other exceptions of the model.                         *)

Ok(v) == [exc |-> "", names |-> {}, val |-> v]

Raise(e, names) == [exc |-> e, names |-> names, val |-> None]

Raised(r) == r.exc # ""

\* the exception with which a failed invoke_model / retrieve call returns
CallError(resp) ==
    IF resp.kind = "ClientError" THEN Raise("ClientError", {resp.code} \cup resp.message)
    ELSE Raise("Exception", {})

----------------------------------------------------------------------------
(* _extract_filter_keys *)

\* extract_keys_recursive(obj): [raised, keys]; raised when keys.add is given
\* an unhashable value (TypeError)
RECURSIVE extract_keys_recursive(_)
extract_keys_recursive(obj) ==
    LET Unhashable(j) ==
            j.t \in {"list", "obj"}
    IN
    CASE obj.t = "obj" ->
           LET own  == IF "key" \in DOMAIN obj.members
                       THEN {obj.members["key"]} ELSE {}
               subs == {extract_keys_recursive(obj.members[k]) : k \in DOMAIN obj.members}
           IN  [raised |-> (\E x \in own : Unhashable(x)) \/ (\E r \in subs : r.raised),
                keys   |-> own \cup UNION {r.keys : r \in subs}]
      [] obj.t = "list" ->
           LET subs == {extract_keys_recursive(obj.items[i]) : i \in 1..Len(obj.items)}
           IN  [raised |-> \E r \in subs : r.raised,
                keys   |-> UNION {r.keys : r \in subs}]
      [] OTHER -> [raised |-> FALSE, keys |-> {}]

\* _extract_filter_keys that looks at the conditions directly under the top
\* of the filter only
extract_filter_keys_unnested(filter) ==
    IF IsNone(filter) \/ ~Truthy(filter[1]) THEN Ok({})
    ELSE IF filter[1].t # "obj" THEN Ok({})
    ELSE Ok(UNION {IF filter[1].members[k].t = "obj"
                      /\ "key" \in DOMAIN filter[1].members[k].members
                   THEN {filter[1].members[k].members.key} ELSE {} :
                   k \in DOMAIN filter[1].members})

\* _extract_filter_keys(metadata_filter): Ok(set of keys) or Raise(TypeError)
extract_filter_keys(filter) ==
    IF IsNone(filter) \/ ~Truthy(filter[1]) THEN Ok({})
    ELSE LET r == extract_keys_recursive(filter[1])
         IN  IF r.raised THEN Raise("TypeError", {}) ELSE Ok(r.keys)

----------------------------------------------------------------------------
(* Filter synthesis: Pipe._generate_metadata_filter and                     *)
(* Pipeline._generate_metadata_filter                                       *)

\* json.loads(self.valves.metadata_definitions) followed by `not metadata_defs`:
\* Ok(TRUE) when there are definitions, Ok(FALSE) when the value is empty
load_metadata_definitions(v) ==
    CASE v.metadata_definitions = "invalid"  -> Raise("JSONDecodeError", {})
      [] v.metadata_definitions = "empty"    -> Ok(FALSE)
      [] v.metadata_definitions = "nonempty" -> Ok(TRUE)

\* filter_preconditions without the `if not metadata_defs: return None` check
filter_preconditions_unchecked(v) ==
    IF ~v.enable_metadata_filtering THEN Ok(None)
    ELSE LET d == load_metadata_definitions(v)
         IN  IF Raised(d) THEN d ELSE Ok(Some("proceed"))

\* what the code before the first model call decides: Ok(None) for `return
\* None`, Ok(Some("proceed")) to go on, or the exception raised in the try block
filter_preconditions(v) ==
    IF ~v.enable_metadata_filtering THEN Ok(None)
    ELSE LET d == load_metadata_definitions(v)
         IN  IF Raised(d) THEN d
             ELSE IF ~d.val THEN Ok(None) ELSE Ok(Some("proceed"))

\* filter_except with only the `except json.JSONDecodeError` clause
filter_except_json_only(r) == IF r.exc = "JSONDecodeError" THEN Ok(None) ELSE r

\* the except clauses of Pipe._generate_metadata_filter: JSONDecodeError and
\* every other Exception become the result None
filter_except(r) == IF Raised(r) THEN Ok(None) ELSE r

\* the single except clause of Pipeline._generate_metadata_filter
pipeline_filter_except(r) == IF Raised(r) THEN Ok(None) ELSE r

\* build_enhanced_query giving up when no range was resolved
build_enhanced_query_requiring_refs(refs) ==
    IF refs = <<>> \/ \E i \in 1..Len(refs) : ~refs[i].original.isstr
    THEN Raise("TypeError", {})
    ELSE Ok(Some([datetime_context |-> refs # <<>>,
                  annotated |-> [i \in 1..Len(refs) |-> refs[i].original.s]]))

\* building enhanced_query and datetime_context from datetime_refs:
\* str.replace raises TypeError for an original that is not a str
build_enhanced_query(refs) ==
    IF \E i \in 1..Len(refs) : ~refs[i].original.isstr
    THEN Raise("TypeError", {})
    ELSE Ok(Some([datetime_context |-> refs # <<>>,
                  annotated |-> [i \in 1..Len(refs) |-> refs[i].original.s]]))

\* is_empty_filter testing only `metadata_filter == {}`
is_empty_filter_braces_only(j) == j = JEmptyObj

\* `if not metadata_filter or metadata_filter == {}`
is_empty_filter(j) == ~Truthy(j) \/ j = JEmptyObj

----------------------------------------------------------------------------
(* Retrieval request, context assembly, error messages *)

NoResultsMessage == "I couldn't find any relevant information in the knowledge base."

\* vector_search_config['filter']: set only `if metadata_filter:`
request_filter(filter) ==
    IF ~IsNone(filter) /\ Truthy(filter[1]) THEN filter ELSE None

\* a retrieval result: content is None (no 'content' member) or
\* Some([text |-> None or Some(text)]); metadata is None (no 'metadata'
\* member) or Some(function from field names to values); location is None
\* (no 'location' member) or Some(the uri of its s3Location, or "Unknown")
ResultOf(content, metadata, location) ==
    [content |-> content, metadata |-> metadata, location |-> location]

has_text(result) ==
    ~IsNone(result.content) /\ ~IsNone(result.content[1].text)

\* metadata_to_show with every field of the passage
metadata_to_show_all(metadata, filter_keys) == metadata

\* metadata_to_show: the fields that are always shown or are keys of the filter
metadata_to_show(metadata, filter_keys) ==
    \* fields that are always shown
    LET always_include ==
            {"source_uri", "created_at_iso"}
    IN
    [k \in {f \in DOMAIN metadata : f \in always_include \/ JStr(f) \in filter_keys}
       |-> metadata[k]]

\* doc_entry for the result at position i
doc_entry(result, i, filter_keys) ==
    \* the "Metadata:" section of a document entry, None when it is left out
    LET metadata_section ==
            IF IsNone(result.metadata) THEN None
            ELSE IF DOMAIN result.metadata[1] = {} THEN None
            ELSE IF DOMAIN metadata_to_show(result.metadata[1], filter_keys) = {} THEN None
            ELSE Some(metadata_to_show(result.metadata[1], filter_keys))
    IN
    [index |-> i,
     metadata |-> metadata_section,
     source |-> result.location,
     content |-> result.content[1].text[1]]

\* build_context numbering the entries 1, 2, ... as they are written
RECURSIVE build_context_renumbered(_, _, _)
build_context_renumbered(results, i, filter_keys) ==
    IF i > Len(results) THEN <<>>
    ELSE IF has_text(results[i])
         THEN <<doc_entry(results[i], Cardinality({j \in 1..i : has_text(results[j])}),
                          filter_keys)>>
              \o build_context_renumbered(results, i + 1, filter_keys)
         ELSE build_context_renumbered(results, i + 1, filter_keys)

\* the loop over enumerate(retrieved_results, 1): one entry per result with text
RECURSIVE build_context(_, _, _)
build_context(results, i, filter_keys) ==
    IF i > Len(results) THEN <<>>
    ELSE IF has_text(results[i])
         THEN <<doc_entry(results[i], i, filter_keys)>>
              \o build_context(results, i + 1, filter_keys)
         ELSE build_context(results, i + 1, filter_keys)

\* the same loop of Pipeline.pipe: "[Document i (Source: uri)]" and the text
RECURSIVE pipeline_build_context(_, _)
pipeline_build_context(results, i) ==
    IF i > Len(results) THEN <<>>
    ELSE IF has_text(results[i])
         THEN <<[index |-> i, source |-> results[i].location,
                 content |-> results[i].content[1].text[1]]>>
              \o pipeline_build_context(results, i + 1)
         ELSE pipeline_build_context(results, i + 1)

\* lines 781-824 of query_knowledge_base: the filter keys, then the entries
assemble_context(filter, results) ==
    LET keys == extract_filter_keys(filter) IN
    IF Raised(keys) THEN keys ELSE Ok(build_context(results, 1, keys.val))

\* response.get('retrievalResults', [])
retrieval_results(resp) == IF IsNone(resp.results) THEN <<>> ELSE resp.results[1]

\* the outer except clauses of Pipe.query_knowledge_base: the message is
\* chosen by the first name, in this order, that occurs in str(e)
kb_error_message(r) ==
    IF r.exc = "ClientError"
    THEN IF "ResourceNotFoundException" \in r.names
         THEN "Error: Knowledge Base ID '<id>' not found. Please check your Knowledge Base ID."
         ELSE IF "AccessDeniedException" \in r.names
         THEN "Error: Access denied to AWS Bedrock Knowledge Base. Please check your AWS credentials and permissions."
         ELSE IF "ValidationException" \in r.names
         THEN "Error: Invalid request to AWS Bedrock Knowledge Base. Please check your parameters."
         ELSE "AWS Bedrock Knowledge Base error: <details>"
    ELSE "Error querying knowledge base: <details>"

\* the except ClientError clause around the generation call of Pipe: the
\* message is chosen by the first name, in this order, that occurs in str(e)
generation_error_message(names) ==
    IF "AccessDeniedException" \in names
    THEN "Error: Access denied to AWS Bedrock. Please check your AWS credentials and permissions."
    ELSE IF "ValidationException" \in names
    THEN "Error: Invalid request to AWS Bedrock. Please check your model ID and parameters. Details: <details>"
    ELSE IF "ThrottlingException" \in names
    THEN "Error: AWS Bedrock request was throttled. Please try again later."
    ELSE IF "ServiceQuotaExceededException" \in names
    THEN "Error: AWS Bedrock service quota exceeded. Please try again later or request a quota increase."
    ELSE "AWS Bedrock error: <details>"

\* the except clause of Pipeline.pipe
pipeline_error_message == "Error querying knowledge base: <details>"

\* _get_model_request_body / _get_model_family: ValueError unless a Claude 3 model
get_model_request_body(v) ==
    IF v.model_id = "claude3" THEN Ok(TRUE) ELSE Raise("ValueError", {})

\* from the generation model's answer to the text returned
parse_model_response(resp) ==
    CASE resp.kind \in {"ClientError", "Exception"} -> CallError(resp)
      [] resp.kind = "bad_envelope" -> Raise("KeyError", {})
      [] resp.kind = "text" -> Ok(resp.text)

----------------------------------------------------------------------------
(* Citation attribution (_generate_citations).  The answer of the citation  *)
(* model is {"citations": [{"answer_text": ..., "chunk_ids": [...]}, ...]}. *)

\* a precondition that looks at the valve only
citations_skipped_when_disabled(v, passages) == ~v.enable_citations

\* no model call: citations disabled, or no passage
citations_skipped(v, passages) == ~v.enable_citations \/ passages = <<>>

\* the text returned for the answer, the passages and the model's reply
generate_citations(answer, passages, resp) ==
    \* the spans of the model's answer, None when the call, the envelope, the
    \* JSON or its fields fail
    LET parse_citations ==
            \* a span names a substring of the answer and passages by 1-based position
            LET span_ok(span) ==
                    /\ span.t = "obj"
                    /\ {"answer_text", "chunk_ids"} \subseteq DOMAIN span.members
                    /\ span.members.answer_text = JStr(answer)
                    /\ span.members.chunk_ids.t = "list"
                    /\ \A k \in 1..Len(span.members.chunk_ids.items) :
                          /\ span.members.chunk_ids.items[k].t = "num"
                          /\ span.members.chunk_ids.items[k].n \in 1..Len(passages)
            IN
            IF resp.kind # "text" THEN None
            ELSE LET v == json_loads(remove_markdown_code_blocks(resp.text)) IN
                 IF IsNone(v) THEN None
                 ELSE IF v[1].t # "obj" THEN None
                 ELSE IF "citations" \notin DOMAIN v[1].members THEN None
                 ELSE IF v[1].members.citations.t # "list" THEN None
                 ELSE IF \E i \in 1..Len(v[1].members.citations.items) :
                            ~span_ok(v[1].members.citations.items[i])
                      THEN None
                 ELSE Some(v[1].members.citations.items)
    IN
    LET spans == parse_citations IN
    IF IsNone(spans) THEN answer
    ELSE IF \A i \in 1..Len(spans[1]) : spans[1][i].members.chunk_ids.items = <<>>
         THEN answer
         ELSE "The answer.[1] Citations: [1] <preview> <source>"

----------------------------------------------------------------------------
(* Inputs of the datetime functions *)

Years == {1969, 1970} \cup (2024..MaxYear)

\* month and day numbers: ambiguous in a/b/Y, too large for a month, too large
\* for some months
MonthNums == {1, 2, 12, 13}

DayNums == {1, 13, 29, 31}

\* <<hour, minute, second>>; second 60 passes the %S pattern and fails datetime()
Times == {<<0, 0, 0>>, <<23, 59, 59>>, <<10, 0, 60>>}

ClockTexts ==
    LET Fractions ==
            {500000}
    IN
    LET Offsets ==
            {-330, 120}
    IN
    {Text(sh, y, a, b, t[1], t[2], t[3], 0, 0) :
        sh \in {"isoZ", "space"}, y \in Years, a \in MonthNums, b \in DayNums, t \in Times}
    \cup {Text("isoFracZ", y, a, b, t[1], t[2], t[3], us, 0) :
        y \in Years, a \in MonthNums, b \in DayNums, t \in Times, us \in Fractions}
    \cup {Text("isoOff", y, a, b, t[1], t[2], t[3], 0, off) :
        y \in Years, a \in MonthNums, b \in DayNums, t \in Times, off \in Offsets}

\* the two sides of the enumerated "from A to B" strings
SideTexts ==
    {t \in ClockTexts : /\ <<t.a, t.b>> \in {<<1, 1>>, <<12, 31>>}
                        /\ t.shape # "space"
                        /\ t.s # 60}
    \cup {Text("date", y, 2, 29, 0, 0, 0, 0, 0) : y \in Years}
    \cup {Word("X"), Word("Y")}

\* sides written in several words: a date and a clock, a month name with day
\* and year, and word sequences that are no date
SideWords ==
    {<<Text("date", 2025, 8, b, 0, 0, 0, 0, 0), Text("clock", 0, 0, 0, t[1], t[2], t[3], 0, 0)>> :
        b \in {1, 31}, t \in Times}
    \cup {<<Text(m, 0, a, 0, 0, 0, 0, 0, 0), Text("dayComma", 0, 0, b, 0, 0, 0, 0, 0),
            Text("year", 2025, 0, 0, 0, 0, 0, 0, 0)>> :
              m \in {"monthLong", "monthShort"}, a \in {5, 8}, b \in {1, 31}}
    \cup {<<Text("clock", 0, 0, 0, 0, 0, 0, 0, 0), Text("date", 2025, 8, 1, 0, 0, 0, 0, 0)>>,
          <<Text("date", 2025, 8, 1, 0, 0, 0, 0, 0), Word("X")>>,
          <<Text("isoZ", 2025, 8, 1, 0, 0, 0, 0, 0)>>}

SeqsUpTo(S, n) == UNION {[1..k -> S] : k \in 0..n}

----------------------------------------------------------------------------
(* Specification of the datetime functions: an argument is chosen, the      *)
(* function is applied to it.                                               *)

\* the queries that run concurrently on one Pipe instance
Queries == {"A", "B"}

\* no status was emitted yet; time.time() reads a time that is at least one
\* interval after the instant that last_emit_time = 0 names
StatusIdle ==
    /\ last_emit_time = 0
    /\ now = MaxInterval
    /\ emit_calls = [q \in Queries |-> None]
    /\ status_log = <<>>

\* the request handling state while a helper function is exercised on its own
QueryIdle ==
    /\ StatusIdle
    /\ variant = "Pipe"
    /\ valves = [aws_access_key_id |-> FALSE, aws_secret_access_key |-> FALSE,
                 knowledge_base_id |-> FALSE, enable_metadata_filtering |-> FALSE,
                 metadata_definitions |-> "empty", model_id |-> "claude3"]
    /\ clients_initialized = FALSE
    /\ bedrock_client = None
    /\ bedrock_agent_client = None
    /\ pc = "idle"
    /\ body = [messages |-> None]
    /\ datetime_refs = <<>>
    /\ metadata_filter = None
    /\ retrieved_results = <<>>
    /\ context = <<>>
    /\ kb_response = None
    /\ outcome = None
    /\ last_response = None
    /\ trace = <<>>

DTInit ==
    LET RangeStrs ==
            LET TokenAlphabet ==
                    {Word("from"), Word("FROM"), Word("to"), Word("X"),
                     Text("date", 2025, 8, 1, 0, 0, 0, 0, 0)}
                \* the tokens of strings of several lines
                LineTexts ==
                    {<<Word("from"), Text("date", 2025, 8, 1, 0, 0, 0, 0, 0), Word("to"),
                       Text("date", 2025, 8, 31, 0, 0, 0, 0, 0)>> \o tail :
                        tail \in {<<>>, <<Word("X")>>,
                                  <<Text("clock", 0, 0, 0, 10, 0, 0, 0, 0)>>}}
                    \cup {<<Word("from"), Text("date", 2025, 8, 1, 0, 0, 0, 0, 0),
                            Text("clock", 0, 0, 0, 10, 0, 0, 0, 0), Word("to"),
                            Text("date", 2025, 8, 31, 0, 0, 0, 0, 0)>>,
                          <<Word("from"), Text("date", 2025, 8, 1, 0, 0, 0, 0, 0), Word("to"),
                            Word("to"), Text("date", 2025, 8, 31, 0, 0, 0, 0, 0)>>}
            IN
            {RangeStr(toks) : toks \in SeqsUpTo(TokenAlphabet, MaxTokens)}
            \cup {RangeStr(<<Word(f), A, Word("to"), B>>) :
                     f \in {"from"}, A \in SideTexts, B \in SideTexts}
            \cup {RangeStr(<<Word(f)>> \o A \o <<Word(t)>> \o B) :
                     f \in {"fROM", "form"}, t \in {"To", "tO"}, A \in SideWords, B \in SideWords}
            \cup UNION {{[RangeStr(toks) EXCEPT !.breaks = {i}] : i \in 1..(Len(toks) - 1)} :
                           toks \in LineTexts}
            \cup {NotAString}
    IN
    LET DateTexts ==
            LET DayTexts ==
                    {Text(sh, y, a, b, 0, 0, 0, 0, 0) :
                        sh \in {"date", "slash"}, y \in Years, a \in MonthNums \cup DayNums, b \in DayNums}
                    \cup {Text(sh, y, a, b, 0, 0, 0, 0, 0) :
                        sh \in {"longMonth", "shortMonth"}, y \in Years, a \in {1, 2, 5, 12}, b \in DayNums}
                    \cup {Text(sh, 0, 1, 1, 0, 0, 0, 0, 0) : sh \in {"date", "slash"}}
            IN
            ClockTexts \cup DayTexts \cup {Word("X"), Word("Y")}
    IN
    /\ QueryIdle
    /\ fn_call \in {[fn |-> "parse_datetime_to_formats", arg |-> t] : t \in DateTexts}
                 \cup {[fn |-> "parse_datetime_range", arg |-> r] : r \in RangeStrs}
    /\ fn_result = None

CallParseDatetimeToFormats ==
    /\ fn_call.fn = "parse_datetime_to_formats"
    /\ IsNone(fn_result)
    /\ fn_result' = Some(parse_datetime_to_formats(fn_call.arg))
    /\ UNCHANGED <<fn_call, query_vars>>

CallParseDatetimeRange ==
    /\ fn_call.fn = "parse_datetime_range"
    /\ IsNone(fn_result)
    /\ fn_result' = Some(parse_datetime_range(fn_call.arg))
    /\ UNCHANGED <<fn_call, query_vars>>

DTNext == CallParseDatetimeToFormats \/ CallParseDatetimeRange

SpecDT == DTInit /\ [][DTNext]_vars

----------------------------------------------------------------------------
(* Handling of a request: Pipe.query_knowledge_base, and Pipeline.pipe.     *)
(* A request is handled as one sequential coroutine that awaits nothing     *)
(* which suspends; the actions are its stretches between two calls to a     *)
(* backend.  Pipe.pipe, which calls Pipe.query_knowledge_base between its   *)
(* status emissions, has a specification of its own further down.           *)

Event(step, detail) == [step |-> step, detail |-> detail]

Returned(value) == [kind |-> "str", value |-> value]

ErrorWrapper(message) == [kind |-> "error", value |-> message]

Escaped(exception) == [kind |-> "raised", value |-> exception]

Message(role, content) == [role |-> role, content |-> content]

\* body["messages"].append({"role": "assistant", "content": text})
append_assistant(b, text) ==
    [b EXCEPT !.messages = Some(Append(b.messages[1], Message("assistant", Some(text))))]

\* the locals of the previous request are gone when a new one starts
FreshLocals ==
    /\ datetime_refs' = <<>>
    /\ metadata_filter' = None
    /\ retrieved_results' = <<>>
    /\ context' = <<>>
    /\ kb_response' = None
    /\ last_response' = None
    /\ trace' = <<>>

\* query_knowledge_base returns `text`
KbReturns(text) ==
    /\ kb_response' = Some(text)
    /\ outcome' = Some(Returned(text))
    /\ pc' = "done"
    /\ UNCHANGED body

\* Pipeline.pipe returns `text`
PipelineReturns(text) ==
    /\ kb_response' = Some(text)
    /\ outcome' = Some(Returned(text))
    /\ pc' = "done"
    /\ UNCHANGED body

CredentialsMessage == "AWS credentials are not configured. Please set aws_access_key_id and aws_secret_access_key in the function settings."

KnowledgeBaseMessage == "Knowledge Base ID is not configured. Please set knowledge_base_id in the function settings."

NoMessagesMessage == "No messages found in the request body"

\* the two configuration checks of Pipe.pipe: the message of the first that
\* fails, None when the valves are set
configuration_error(v) ==
    IF ~v.aws_access_key_id \/ ~v.aws_secret_access_key
    THEN Some(CredentialsMessage)
    ELSE IF ~v.knowledge_base_id
         THEN Some(KnowledgeBaseMessage)
         ELSE None

\* what boto3 does with one initialization: every creation succeeds ("ok",
\* "ok_assumed" with a role assumed through sts), or the named step raises
\* ("..._assumed": after the role was assumed)
InitResults(v) ==
    IF v = "Pipe"
    THEN {"ok", "ok_assumed", "session_fails", "assume_role_fails",
          "runtime_client_fails", "agent_client_fails",
          "runtime_client_fails_assumed", "agent_client_fails_assumed"}
    ELSE {"ok", "session_fails", "runtime_client_fails", "agent_client_fails"}

\* _initialize_clients without the test of the flag
initialize_clients_unguarded(initialized, result) ==
    LET Session == Event("boto3.Session", None)
        client(service) == Event("session.client", Some(service))
        state(flag, runtime, agent, created, raised) ==
            [initialized |-> flag, bedrock_client |-> runtime,
             bedrock_agent_client |-> agent,
             created |-> IF raised THEN Append(created, Event("raise", None)) ELSE created,
             raised |-> raised]
        sessions == IF result \in {"ok_assumed", "runtime_client_fails_assumed",
                                    "agent_client_fails_assumed"}
                    THEN <<Session, client("sts"), Session>>
                    ELSE <<Session>>
        \* the flag after an exception of session.client: the except clause of
        \* Pipe clears it, Pipeline has no try block
        failed == IF variant = "Pipe" THEN FALSE ELSE initialized
    IN
    IF FALSE
    THEN state(initialized, bedrock_client, bedrock_agent_client, <<>>, FALSE)
    ELSE IF result = "session_fails"
    THEN state(initialized, bedrock_client, bedrock_agent_client, <<>>, TRUE)
    ELSE IF result = "assume_role_fails"
    THEN state(initialized, bedrock_client, bedrock_agent_client,
               <<Session, client("sts")>>, TRUE)
    ELSE IF result \in {"runtime_client_fails", "runtime_client_fails_assumed"}
    THEN state(failed, bedrock_client, bedrock_agent_client, sessions, TRUE)
    ELSE IF result \in {"agent_client_fails", "agent_client_fails_assumed"}
    THEN state(failed, Some("bedrock-runtime"), bedrock_agent_client,
               Append(sessions, client("bedrock-runtime")), TRUE)
    ELSE state(TRUE, Some("bedrock-runtime"), Some("bedrock-agent-runtime"),
               sessions \o <<client("bedrock-runtime"),
                             client("bedrock-agent-runtime")>>, FALSE)

\* _initialize_clients of both variants, entered with the flag initialized,
\* against the boto3 behaviour result: the flag and the handles it leaves,
\* the sessions and clients boto3 created for it (in order, closed by a
\* raise event when it raised), and whether it raised
initialize_clients(initialized, result) ==
    LET Session == Event("boto3.Session", None)
        client(service) == Event("session.client", Some(service))
        state(flag, runtime, agent, created, raised) ==
            [initialized |-> flag, bedrock_client |-> runtime,
             bedrock_agent_client |-> agent,
             created |-> IF raised THEN Append(created, Event("raise", None)) ELSE created,
             raised |-> raised]
        sessions == IF result \in {"ok_assumed", "runtime_client_fails_assumed",
                                    "agent_client_fails_assumed"}
                    THEN <<Session, client("sts"), Session>>
                    ELSE <<Session>>
        \* the flag after an exception of session.client: the except clause of
        \* Pipe clears it, Pipeline has no try block
        failed == IF variant = "Pipe" THEN FALSE ELSE initialized
    IN
    IF initialized
    THEN state(initialized, bedrock_client, bedrock_agent_client, <<>>, FALSE)
    ELSE IF result = "session_fails"
    THEN state(initialized, bedrock_client, bedrock_agent_client, <<>>, TRUE)
    ELSE IF result = "assume_role_fails"
    THEN state(initialized, bedrock_client, bedrock_agent_client,
               <<Session, client("sts")>>, TRUE)
    ELSE IF result \in {"runtime_client_fails", "runtime_client_fails_assumed"}
    THEN state(failed, bedrock_client, bedrock_agent_client, sessions, TRUE)
    ELSE IF result \in {"agent_client_fails", "agent_client_fails_assumed"}
    THEN state(failed, Some("bedrock-runtime"), bedrock_agent_client,
               Append(sessions, client("bedrock-runtime")), TRUE)
    ELSE state(TRUE, Some("bedrock-runtime"), Some("bedrock-agent-runtime"),
               sessions \o <<client("bedrock-runtime"),
                             client("bedrock-agent-runtime")>>, FALSE)

\* a call of Pipe.query_knowledge_base, as Pipe.pipe makes it at line 952
Pipe_query_knowledge_base ==
    /\ variant = "Pipe"
    /\ pc \in {"idle", "done"}
    /\ FreshLocals
    /\ outcome' = None
    /\ pc' = "init_clients"
    /\ UNCHANGED <<variant, valves, client_vars, body, fn_vars>>

\* Pipe._initialize_clients, called first in query_knowledge_base and
\* outside its try block; result tells what boto3 does when the session and
\* the clients are created
Pipe_initialize_clients(result) ==
    LET after == initialize_clients(clients_initialized, result) IN
    /\ variant = "Pipe"
    /\ result \in InitResults("Pipe")
    /\ pc = "init_clients"
    /\ clients_initialized' = after.initialized
    /\ bedrock_client' = after.bedrock_client
    /\ bedrock_agent_client' = after.bedrock_agent_client
    /\ IF after.raised
       THEN /\ outcome' = Some(Escaped("Exception"))
            /\ pc' = "done"
       ELSE /\ pc' = "filter"
            /\ UNCHANGED outcome
    /\ UNCHANGED body
    /\ UNCHANGED <<variant, valves, datetime_refs, metadata_filter, retrieved_results,
                   context, kb_response, last_response, trace, fn_vars>>

\* Pipe._generate_metadata_filter up to its first model call
Pipe_generate_metadata_filter ==
    /\ variant = "Pipe"
    /\ pc = "filter"
    /\ LET r == filter_except(filter_preconditions(valves)) IN
       IF Raised(r)
       THEN /\ KbReturns(kb_error_message(r))
            /\ UNCHANGED <<metadata_filter, trace>>
       ELSE IF ~IsNone(r.val)
       THEN /\ pc' = "extract_call"
            /\ UNCHANGED <<metadata_filter, trace, kb_response, outcome, body>>
       ELSE /\ metadata_filter' = None
            /\ trace' = Append(trace, Event("filter_resolved", None))
            /\ pc' = "retrieve"
            /\ UNCHANGED <<kb_response, outcome, body>>
    /\ UNCHANGED <<variant, valves, client_vars, datetime_refs,
                   retrieved_results, context, last_response, fn_vars>>

\* Pipe._extract_datetime_references (one model call) and the annotation of the
\* query with the ranges it returned
Pipe_extract_datetime_references(resp) ==
    /\ variant = "Pipe"
    /\ pc = "extract_call"
    /\ last_response' = Some(resp)
    /\ datetime_refs' = extract_datetime_references(resp)
    /\ LET r == filter_except(build_enhanced_query(extract_datetime_references(resp))) IN
       IF Raised(r)
       THEN /\ trace' = Append(trace, Event("invoke_model:extract_datetime", None))
            /\ KbReturns(kb_error_message(r))
            /\ UNCHANGED metadata_filter
       ELSE IF IsNone(r.val)
       THEN /\ metadata_filter' = None
            /\ trace' = trace \o <<Event("invoke_model:extract_datetime", None),
                                   Event("filter_resolved", None)>>
            /\ pc' = "retrieve"
            /\ UNCHANGED <<kb_response, outcome, body>>
       ELSE /\ trace' = Append(trace, Event("invoke_model:extract_datetime", None))
            /\ pc' = "filter_call"
            /\ UNCHANGED <<metadata_filter, kb_response, outcome, body>>
    /\ UNCHANGED <<variant, valves, client_vars, retrieved_results,
                   context, fn_vars>>

\* the filter generation call of Pipe._generate_metadata_filter and the parsing
\* of its answer
Pipe_filter_model_call(resp) ==
    \* from the filter model's answer to the value returned inside the try block
    LET parse_filter_response(reply) ==
            CASE reply.kind \in {"ClientError", "Exception"} -> CallError(reply)
              [] reply.kind = "bad_envelope" -> Raise("KeyError", {})
              [] reply.kind = "text" ->
                   LET j == json_loads(remove_markdown_code_blocks(reply.text))
                   IN  IF IsNone(j) THEN Raise("JSONDecodeError", {})
                       ELSE IF is_empty_filter(j[1]) THEN Ok(None)
                       ELSE Ok(j)
    IN
    /\ variant = "Pipe"
    /\ pc = "filter_call"
    /\ last_response' = Some(resp)
    /\ LET r == filter_except(parse_filter_response(resp))
           \* what the prompt of the call says about the query
           enhanced == build_enhanced_query(datetime_refs).val
       IN
       IF Raised(r)
       THEN /\ trace' = Append(trace, Event("invoke_model:generate_filter", enhanced))
            /\ KbReturns(kb_error_message(r))
            /\ UNCHANGED metadata_filter
       ELSE /\ metadata_filter' = r.val
            /\ trace' = trace \o <<Event("invoke_model:generate_filter", enhanced),
                                   Event("filter_resolved", r.val)>>
            /\ pc' = "retrieve"
            /\ UNCHANGED <<kb_response, outcome, body>>
    /\ UNCHANGED <<variant, valves, client_vars, datetime_refs,
                   retrieved_results, context, fn_vars>>

\* Pipe_retrieve issued without awaiting _generate_metadata_filter
Pipe_retrieve_unawaited(resp) ==
    /\ variant = "Pipe"
    /\ pc \in {"filter", "retrieve"}
    /\ last_response' = Some(resp)
    /\ trace' = Append(trace, Event("retrieve", request_filter(metadata_filter)))
    /\ IF resp.kind = "response"
       THEN /\ retrieved_results' = retrieval_results(resp)
            /\ pc' = "context"
            /\ UNCHANGED <<kb_response, outcome, body>>
       ELSE /\ KbReturns(kb_error_message(CallError(resp)))
            /\ UNCHANGED retrieved_results
    /\ UNCHANGED <<variant, valves, client_vars, datetime_refs,
                   metadata_filter, context, fn_vars>>

\* the retrieve call of Pipe.query_knowledge_base
Pipe_retrieve(resp) ==
    /\ variant = "Pipe"
    /\ pc = "retrieve"
    /\ last_response' = Some(resp)
    /\ trace' = Append(trace, Event("retrieve", request_filter(metadata_filter)))
    /\ IF resp.kind = "response"
       THEN /\ retrieved_results' = retrieval_results(resp)
            /\ pc' = "context"
            /\ UNCHANGED <<kb_response, outcome, body>>
       ELSE /\ KbReturns(kb_error_message(CallError(resp)))
            /\ UNCHANGED retrieved_results
    /\ UNCHANGED <<variant, valves, client_vars, datetime_refs,
                   metadata_filter, context, fn_vars>>

\* context assembly of Pipe.query_knowledge_base
Pipe_assemble_context ==
    /\ variant = "Pipe"
    /\ pc = "context"
    /\ trace' = Append(trace, Event("assemble_context", None))
    /\ LET docs == assemble_context(metadata_filter, retrieved_results)
       IN  IF Raised(docs)
           THEN /\ KbReturns(kb_error_message(docs))
                /\ UNCHANGED context
           ELSE /\ context' = docs.val
                /\ IF docs.val = <<>>
                   THEN KbReturns(NoResultsMessage)
                   ELSE /\ pc' = "generate"
                        /\ UNCHANGED <<kb_response, outcome, body>>
    /\ UNCHANGED <<variant, valves, client_vars, datetime_refs,
                   metadata_filter, retrieved_results, last_response, fn_vars>>

\* Pipe_generate that issues the generation call a second time when the
\* first one fails
Pipe_generate_retrying(resp) ==
    /\ variant = "Pipe"
    /\ pc = "generate"
    /\ LET body_ok == get_model_request_body(valves) IN
       IF Raised(body_ok)
       THEN /\ KbReturns(kb_error_message(body_ok))
            /\ UNCHANGED <<trace, last_response>>
       ELSE /\ last_response' = Some(resp)
            /\ trace' = Append(trace, Event("invoke_model:generate_answer", None))
            /\ LET r == parse_model_response(resp) IN
               IF r.exc = "ClientError" /\ trace[Len(trace)].step = "assemble_context"
               THEN UNCHANGED <<pc, kb_response, outcome, body>>
               ELSE IF r.exc = "ClientError" THEN KbReturns(generation_error_message(r.names))
               ELSE IF Raised(r) THEN KbReturns(kb_error_message(r))
               ELSE KbReturns(r.val)
    /\ UNCHANGED <<variant, valves, client_vars, datetime_refs,
                   metadata_filter, retrieved_results, context, fn_vars>>

\* answer generation of Pipe.query_knowledge_base
Pipe_generate(resp) ==
    /\ variant = "Pipe"
    /\ pc = "generate"
    /\ LET body_ok == get_model_request_body(valves) IN
       IF Raised(body_ok)
       THEN /\ KbReturns(kb_error_message(body_ok))
            /\ UNCHANGED <<trace, last_response>>
       ELSE /\ last_response' = Some(resp)
            /\ trace' = Append(trace, Event("invoke_model:generate_answer", None))
            /\ LET r == parse_model_response(resp) IN
               IF r.exc = "ClientError" THEN KbReturns(generation_error_message(r.names))
               ELSE IF Raised(r) THEN KbReturns(kb_error_message(r))
               ELSE KbReturns(r.val)
    /\ UNCHANGED <<variant, valves, client_vars, datetime_refs,
                   metadata_filter, retrieved_results, context, fn_vars>>

\* Pipeline.pipe up to the call of _initialize_clients
Pipeline_pipe(b) ==
    /\ variant = "Pipeline"
    /\ pc \in {"idle", "done"}
    /\ FreshLocals
    /\ body' = b
    /\ outcome' = None
    /\ pc' = "init_clients"
    /\ UNCHANGED <<variant, valves, client_vars, fn_vars>>

\* Pipeline._initialize_clients, called outside the try block of Pipeline.pipe
Pipeline_initialize_clients(result) ==
    /\ variant = "Pipeline"
    /\ result \in InitResults("Pipeline")
    /\ pc = "init_clients"
    /\ LET after == initialize_clients(clients_initialized, result) IN
       /\ clients_initialized' = after.initialized
       /\ bedrock_client' = after.bedrock_client
       /\ bedrock_agent_client' = after.bedrock_agent_client
       /\ IF after.raised
          THEN /\ outcome' = Some(Escaped("Exception"))
               /\ pc' = "done"
          ELSE /\ pc' = "filter"
               /\ UNCHANGED outcome
    /\ UNCHANGED <<variant, valves, body, datetime_refs, metadata_filter, retrieved_results,
                   context, kb_response, last_response, trace, fn_vars>>

\* Pipeline._generate_metadata_filter up to its model call
Pipeline_generate_metadata_filter ==
    /\ variant = "Pipeline"
    /\ pc = "filter"
    /\ LET r == pipeline_filter_except(filter_preconditions(valves)) IN
       IF Raised(r)
       THEN /\ PipelineReturns(pipeline_error_message)
            /\ UNCHANGED <<metadata_filter, trace>>
       ELSE IF ~IsNone(r.val)
       THEN /\ pc' = "filter_call"
            /\ UNCHANGED <<metadata_filter, trace, kb_response, outcome, body>>
       ELSE /\ metadata_filter' = None
            /\ trace' = Append(trace, Event("filter_resolved", None))
            /\ pc' = "retrieve"
            /\ UNCHANGED <<kb_response, outcome, body>>
    /\ UNCHANGED <<variant, valves, client_vars, datetime_refs,
                   retrieved_results, context, last_response, fn_vars>>

\* the model call of Pipeline._generate_metadata_filter and the parsing of its answer
Pipeline_filter_model_call(resp) ==
    \* the same steps in Pipeline._generate_metadata_filter
    LET pipeline_parse_filter_response(reply) ==
            CASE reply.kind \in {"ClientError", "Exception"} -> CallError(reply)
              [] reply.kind = "bad_envelope" -> Raise("KeyError", {})
              [] reply.kind = "text" ->
                   LET stripped == IF reply.text.fence \in {"plain", "json"}
                                   THEN ModelText("none", reply.text.payload)
                                   ELSE reply.text
                       j == json_loads(stripped)
                   IN  IF IsNone(j) THEN Raise("JSONDecodeError", {})
                       ELSE IF is_empty_filter(j[1]) THEN Ok(None)
                       ELSE Ok(j)
    IN
    /\ variant = "Pipeline"
    /\ pc = "filter_call"
    /\ last_response' = Some(resp)
    /\ LET r == pipeline_filter_except(pipeline_parse_filter_response(resp)) IN
       IF Raised(r)
       THEN /\ trace' = Append(trace, Event("invoke_model:generate_filter", None))
            /\ PipelineReturns(pipeline_error_message)
            /\ UNCHANGED metadata_filter
       ELSE /\ metadata_filter' = r.val
            /\ trace' = trace \o <<Event("invoke_model:generate_filter", None),
                                   Event("filter_resolved", r.val)>>
            /\ pc' = "retrieve"
            /\ UNCHANGED <<kb_response, outcome, body>>
    /\ UNCHANGED <<variant, valves, client_vars, datetime_refs,
                   retrieved_results, context, fn_vars>>

\* the retrieve call of Pipeline.pipe
Pipeline_retrieve(resp) ==
    /\ variant = "Pipeline"
    /\ pc = "retrieve"
    /\ last_response' = Some(resp)
    /\ trace' = Append(trace, Event("retrieve", request_filter(metadata_filter)))
    /\ IF resp.kind = "response"
       THEN /\ retrieved_results' = retrieval_results(resp)
            /\ pc' = "context"
            /\ UNCHANGED <<kb_response, outcome, body>>
       ELSE /\ PipelineReturns(pipeline_error_message)
            /\ UNCHANGED retrieved_results
    /\ UNCHANGED <<variant, valves, client_vars, datetime_refs,
                   metadata_filter, context, fn_vars>>

\* context assembly of Pipeline.pipe
Pipeline_assemble_context ==
    /\ variant = "Pipeline"
    /\ pc = "context"
    /\ trace' = Append(trace, Event("assemble_context", None))
    /\ context' = pipeline_build_context(retrieved_results, 1)
    /\ IF pipeline_build_context(retrieved_results, 1) = <<>>
       THEN PipelineReturns(NoResultsMessage)
       ELSE /\ pc' = "generate"
            /\ UNCHANGED <<kb_response, outcome, body>>
    /\ UNCHANGED <<variant, valves, client_vars, datetime_refs,
                   metadata_filter, retrieved_results, last_response, fn_vars>>

\* answer generation of Pipeline.pipe
Pipeline_generate(resp) ==
    /\ variant = "Pipeline"
    /\ pc = "generate"
    /\ last_response' = Some(resp)
    /\ trace' = Append(trace, Event("invoke_model:generate_answer", None))
    /\ LET r == parse_model_response(resp) IN
       IF Raised(r) THEN PipelineReturns(pipeline_error_message)
       ELSE PipelineReturns(r.val)
    /\ UNCHANGED <<variant, valves, client_vars, datetime_refs,
                   metadata_filter, retrieved_results, context, fn_vars>>

----------------------------------------------------------------------------
(* What the callers and the backends can supply *)

ValvesOf(key, secret, kb, enable, defs, model) ==
    [aws_access_key_id |-> key, aws_secret_access_key |-> secret,
     knowledge_base_id |-> kb, enable_metadata_filtering |-> enable,
     metadata_definitions |-> defs, model_id |-> model]

Question == Message("user", Some("question"))

Bodies ==
    {[messages |-> None],
     [messages |-> Some(<<>>)],
     [messages |-> Some(<<Question>>)],
     [messages |-> Some(<<Message("user", None)>>)],
     [messages |-> Some(<<Message("user", Some("earlier")), Question>>)]}

AugustRange ==
    RangeStr(<<Word("from"), Text("isoZ", 2025, 8, 1, 0, 0, 0, 0, 0),
               Word("to"), Text("isoZ", 2025, 8, 31, 23, 59, 59, 0, 0)>>)

GoodItem == RefItem(Some(Phrase("August 2025")), Some(AugustRange))

ExtractionResponses ==
    LET NonStringOriginal ==
            [isstr |-> FALSE, s |-> ""]
    IN
    {ClientError("ThrottlingException", {}), BadEnvelope,
     TextResponse(ModelText("none", None)),
     TextResponse(ModelText("none", Some(JList(<<>>)))),
     TextResponse(ModelText("json", Some(JList(<<GoodItem>>)))),
     TextResponse(ModelText("none", Some(JList(<<GoodItem, NonObjectItem>>)))),
     TextResponse(ModelText("none", Some(JList(<<RefItem(Some(NonStringOriginal),
                                                         Some(AugustRange))>>))))}

Condition(op, key, value) == JObj([o \in {op} |-> JObj([key |-> key, value |-> value])])

AuthorEquals == Condition("equals", JStr("author"), JStr("x"))

FilterResponses ==
    LET FilterPayloads ==
            {None, Some(JNull), Some(JEmptyObj), Some(JList(<<>>)), Some(JNum(0)),
             Some(JStr("")), Some(JBool(FALSE)),
             Some(AuthorEquals),
             Some(JObj([andAll |-> JList(<<AuthorEquals,
                                           Condition("greaterThanOrEquals", JStr("created_at_unix"),
                                                     JNum(1754006400))>>)])),
             Some(Condition("equals", JList(<<JStr("author")>>), JStr("x"))),
             Some(Condition("matches", JStr("author"), JStr("x"))),
             Some(JList(<<AuthorEquals>>)), Some(JNum(5)), Some(JStr("x")), Some(JBool(TRUE))}
    IN
    {ClientError("AccessDeniedException", {}), OtherException, BadEnvelope}
    \cup {TextResponse(ModelText("none", p)) : p \in FilterPayloads}
    \cup {TextResponse(ModelText(f, p)) :
            f \in {"plain", "json"}, p \in {None, Some(JEmptyObj), Some(AuthorEquals)}}

RetrieveResponses ==
    LET Result(content) == ResultOf(content, None, None)
        ResultKinds ==
            {Result(None), Result(Some([text |-> None])),
             Result(Some([text |-> Some("")])), Result(Some([text |-> Some("passage")]))}
    IN
    {ClientError(c, {}) : c \in {"ResourceNotFoundException", "AccessDeniedException",
                                 "ValidationException", "ThrottlingException",
                                 "ServiceQuotaExceededException", "InternalServerException"}}
    \cup {ClientError("ThrottlingException", {"AccessDeniedException"}),
          ClientError("ValidationException", {"ResourceNotFoundException"})}
    \cup {OtherException}
    \cup {[kind |-> "response", results |-> None]}
    \cup {[kind |-> "response", results |-> Some(r)] : r \in SeqsUpTo(ResultKinds, MaxResults)}

GenerationResponses ==
    {ClientError(c, {}) : c \in {"AccessDeniedException", "ValidationException",
                                 "ThrottlingException", "ServiceQuotaExceededException",
                                 "ResourceNotFoundException", "ModelTimeoutException"}}
    \cup {ClientError("ThrottlingException", {"AccessDeniedException"}),
          ClientError("ServiceQuotaExceededException", {"ValidationException"})}
    \cup {OtherException, BadEnvelope, TextResponse("The answer.")}

CitationPayloads ==
    LET CitationSpan(answer_text, chunk_ids) ==
            JObj([answer_text |-> JStr(answer_text), chunk_ids |-> JList(chunk_ids)])
        CitationsObj(spans) == JObj([citations |-> JList(spans)])
    IN
    {None, Some(JEmptyObj), Some(JList(<<>>)),
     Some(CitationsObj(<<CitationSpan("The answer.", <<JNum(1)>>)>>)),
     Some(CitationsObj(<<CitationSpan("The answer.", <<JNum(MaxResults + 2)>>)>>))}

CitationResponses ==
    {ClientError("ThrottlingException", {}), OtherException, BadEnvelope}
    \cup {TextResponse(ModelText("none", p)) : p \in CitationPayloads}
    \cup {TextResponse(ModelText("json", p)) : p \in CitationPayloads}

----------------------------------------------------------------------------
(* Specification of request handling *)

FnIdle ==
    /\ fn_call = [fn |-> "none", arg |-> None]
    /\ fn_result = None

Init ==
    \* the Pipeline variant reads neither knowledge_base_id nor the model family;
    \* Pipe.query_knowledge_base is called once Pipe.pipe has found the
    \* credentials and the knowledge base ID set (lines 926-937)
    LET ValveSettings(v) ==
            IF v = "Pipe"
            THEN {ValvesOf(TRUE, TRUE, TRUE, enable, defs, model) :
                     enable \in BOOLEAN,
                     defs \in {"invalid", "empty", "nonempty"}, model \in {"claude3", "other"}}
            ELSE {ValvesOf(key, secret, TRUE, enable, defs, "claude3") :
                     key \in BOOLEAN, secret \in BOOLEAN, enable \in BOOLEAN,
                     defs \in {"invalid", "empty", "nonempty"}}
    IN
    /\ FnIdle
    /\ StatusIdle
    /\ variant \in {"Pipe", "Pipeline"}
    /\ valves \in ValveSettings(variant)
    /\ clients_initialized = FALSE
    /\ bedrock_client = None
    /\ bedrock_agent_client = None
    /\ pc = "idle"
    /\ body = [messages |-> None]
    /\ datetime_refs = <<>>
    /\ metadata_filter = None
    /\ retrieved_results = <<>>
    /\ context = <<>>
    /\ kb_response = None
    /\ outcome = None
    /\ last_response = None
    /\ trace = <<>>

Next ==
    \/ Pipe_query_knowledge_base
    \/ \E result \in InitResults("Pipe") : Pipe_initialize_clients(result)
    \/ Pipe_generate_metadata_filter
    \/ \E resp \in ExtractionResponses : Pipe_extract_datetime_references(resp)
    \/ \E resp \in FilterResponses : Pipe_filter_model_call(resp)
    \/ \E resp \in RetrieveResponses : Pipe_retrieve(resp)
    \/ Pipe_assemble_context
    \/ \E resp \in GenerationResponses : Pipe_generate(resp)
    \/ \E b \in {[messages |-> Some(<<Question>>)]} : Pipeline_pipe(b)
    \/ \E result \in InitResults("Pipeline") : Pipeline_initialize_clients(result)
    \/ Pipeline_generate_metadata_filter
    \/ \E resp \in FilterResponses : Pipeline_filter_model_call(resp)
    \/ \E resp \in RetrieveResponses : Pipeline_retrieve(resp)
    \/ Pipeline_assemble_context
    \/ \E resp \in GenerationResponses : Pipeline_generate(resp)

Spec == Init /\ [][Next]_vars

----------------------------------------------------------------------------
(* Specification of _extract_datetime_references on its own: the model's    *)
(* answer is chosen, the function turns it into datetime_refs.              *)

EXInit ==
    LET ExtractionAnswers ==
            LET ItemAlphabet ==
                    LET YearRange ==
                            RangeStr(<<Word("from"), Text("date", 2025, 1, 1, 0, 0, 0, 0, 0),
                                       Word("to"), Text("space", 2025, 12, 31, 23, 59, 59, 0, 0)>>)
                    IN
                    LET ReversedRange ==
                            RangeStr(<<Word("from"), Text("isoZ", 2025, 8, 31, 23, 59, 59, 0, 0),
                                       Word("to"), Text("isoZ", 2025, 8, 1, 0, 0, 0, 0, 0)>>)
                    IN
                    {GoodItem,
                     RefItem(Some(Phrase("2025")), Some(YearRange)),
                     RefItem(None, Some(AugustRange)),
                     RefItem(Some(Phrase("last summer")), None),
                     RefItem(Some(Phrase("sometime")), Some(RangeStr(<<Word("from"), Word("X"), Word("to"), Word("Y")>>))),
                     RefItem(Some(Phrase("since August")),
                             Some(RangeStr(<<Word("from"), Text("date", 2025, 8, 1, 0, 0, 0, 0, 0), Word("to")>>))),
                     RefItem(Some(Phrase("5")), Some(NotAString)),
                     RefItem(Some(Phrase("backwards")), Some(ReversedRange)),
                     NonObjectItem}
            IN
            {ClientError("ThrottlingException", {}), OtherException, BadEnvelope}
            \cup {TextResponse(ModelText(f, None)) : f \in {"none", "plain", "json"}}
            \cup {TextResponse(ModelText("none", Some(j))) :
                    j \in {JNull, JNum(5), JEmptyObj, JStr(""), JStr("none"),
                           JObj([datetime_refs |-> JList(<<>>)])}}
            \cup {TextResponse(ModelText(f, Some(JList(items)))) :
                    f \in {"none", "json"}, items \in SeqsUpTo(ItemAlphabet, MaxItems)}
    IN
    /\ QueryIdle
    /\ fn_call \in {[fn |-> "_extract_datetime_references", arg |-> r] : r \in ExtractionAnswers}
    /\ fn_result = None

CallExtractDatetimeReferences ==
    /\ fn_call.fn = "_extract_datetime_references"
    /\ IsNone(fn_result)
    /\ fn_result' = Some(extract_datetime_references(fn_call.arg))
    /\ UNCHANGED <<fn_call, query_vars>>

EXNext == CallExtractDatetimeReferences

SpecEX == EXInit /\ [][EXNext]_vars

----------------------------------------------------------------------------
(* Specification of _extract_filter_keys on its own: a filter is chosen and *)
(* traversed, then traversed again; fn_result holds the results in order.   *)

Leaves ==
    {AuthorEquals,
     Condition("greaterThanOrEquals", JStr("created_at_unix"), JNum(1754006400)),
     Condition("in", JStr("author"), JList(<<JStr("x"), JStr("y")>>)),
     Condition("stringContains", JStr("title"), JStr("key"))}

\* the andAll and orAll branches over one or two of the given children
Branches(children) ==
    {JObj([o \in {op} |-> JList(cs)]) :
        op \in {"andAll", "orAll"},
        cs \in {<<a>> : a \in children} \cup {<<a, b>> : a \in children, b \in children}}

\* the filters of depth at most two: the leaves, and the branches whose
\* children are leaves or branches over leaves (the branches over leaves are
\* among them, so they are not listed a second time)
FilterTrees == Leaves \cup Branches(Leaves \cup Branches(Leaves))

FKInit ==
    LET FilterArguments ==
            \* values that json.loads can give and that are not filter trees
            LET OddFilters ==
                    {JNull, JEmptyObj, JList(<<>>), JNum(0), JNum(5), JStr(""), JStr("x"),
                     JBool(FALSE), JBool(TRUE), JList(<<AuthorEquals>>),
                     Condition("equals", JNum(5), JStr("x")),
                     Condition("equals", JNull, JStr("x")),
                     Condition("equals", JList(<<JStr("author")>>), JStr("x")),
                     Condition("equals", JObj([name |-> JStr("author")]), JStr("x")),
                     Condition("equals", JStr("author"), JObj([key |-> JStr("inner"), value |-> JNum(1)])),
                     JObj([andAll |-> JList(<<AuthorEquals,
                                              Condition("equals", JList(<<>>), JStr("x"))>>)]),
                     JObj([key |-> JStr("top")])}
            IN
            {None} \cup {Some(f) : f \in FilterTrees \cup OddFilters}
    IN
    /\ QueryIdle
    /\ fn_call \in {[fn |-> "_extract_filter_keys", arg |-> f] : f \in FilterArguments}
    /\ fn_result = None

\* one call of _extract_filter_keys(fn_call.arg); the argument is only read
CallExtractFilterKeys ==
    /\ fn_call.fn = "_extract_filter_keys"
    /\ IF IsNone(fn_result) THEN TRUE ELSE Len(fn_result[1]) < 2
    /\ fn_result' = Some(Append(IF IsNone(fn_result) THEN <<>> ELSE fn_result[1],
                                extract_filter_keys(fn_call.arg)))
    /\ UNCHANGED <<fn_call, query_vars>>

FKNext == CallExtractFilterKeys

SpecFK == FKInit /\ [][FKNext]_vars

----------------------------------------------------------------------------
(* Specification of context assembly on its own: a filter and a list of     *)
(* retrieval results are chosen, the entries of the context are built.      *)

MetadataFields == {"source_uri", "created_at_iso", "author", "category"}

PassageResults ==
    \* the metadata a passage can carry: every field has the value "v"
    LET Metadatas ==
            {[f \in S |-> "v"] :
                S \in {{}, {"source_uri"}, {"author"}, {"category"}, {"created_at_iso", "author"},
                       {"source_uri", "created_at_iso", "category"}, MetadataFields}}
    IN
    {ResultOf(Some([text |-> Some("passage")]), md, loc) :
        md \in {None} \cup {Some(m) : m \in Metadatas},
        loc \in {None, Some("s3://bucket/doc")}}
    \cup {ResultOf(Some([text |-> None]), Some([f \in MetadataFields |-> "v"]), None)}

CAInit ==
    LET ContextFilters ==
            {None, Some(AuthorEquals), Some(JList(<<>>)),
             Some(JObj([andAll |-> JList(<<AuthorEquals,
                                           Condition("equals", JStr("category"), JStr("x"))>>)])),
             Some(Condition("equals", JNum(5), JStr("x"))),
             Some(Condition("equals", JList(<<JStr("author")>>), JStr("x")))}
    IN
    /\ QueryIdle
    /\ fn_call \in {[fn |-> "assemble_context", arg |-> [filter |-> f, results |-> rs]] :
                      f \in ContextFilters, rs \in SeqsUpTo(PassageResults, MaxResults)}
    /\ fn_result = None

CallAssembleContext ==
    /\ fn_call.fn = "assemble_context"
    /\ IsNone(fn_result)
    /\ fn_result' = Some(assemble_context(fn_call.arg.filter, fn_call.arg.results))
    /\ UNCHANGED <<fn_call, query_vars>>

CANext == CallAssembleContext

SpecCA == CAInit /\ [][CANext]_vars

----------------------------------------------------------------------------
(* Conversation history: Pipe._format_conversation_history and             *)
(* Pipeline._format_history.  The returned string is a record: header says *)
(* whether "Previous conversation:" was written, turns are the written     *)
(* "User: ..." and "Assistant: ..." paragraphs in order.                   *)

EmptyHistory == [header |-> FALSE, turns |-> <<>>]

\* msg.get("content", "")
content_of(msg) == IF IsNone(msg.content) THEN "" ELSE msg.content[1]

\* the loop over history_messages: other roles write nothing
RECURSIVE format_turns(_)
format_turns(history_messages) ==
    IF history_messages = <<>> THEN <<>>
    ELSE LET msg == Head(history_messages) IN
         (IF msg.role = "user" THEN <<[speaker |-> "User", content |-> content_of(msg)]>>
          ELSE IF msg.role = "assistant"
               THEN <<[speaker |-> "Assistant", content |-> content_of(msg)]>>
          ELSE <<>>) \o format_turns(Tail(history_messages))

\* messages[:-1] if len(messages) > 1 else []
before_last(messages) ==
    IF Len(messages) > 1 THEN SubSeq(messages, 1, Len(messages) - 1) ELSE <<>>

----------------------------------------------------------------------------
(* Specification of the history formatting on its own: a message list and  *)
(* the history valves are chosen, then the function is applied.            *)

FHInit ==
    LET HistoryArguments ==
            LET HistoryMessages ==
                    {Message(role, content) : role \in {"user", "assistant", "system"},
                                              content \in {Some("a"), Some("b"), None}}
            IN
            {[use_conversation_history |-> use, max_history_messages |-> n, messages |-> ms] :
                use \in BOOLEAN, n \in 0..MaxHistory, ms \in SeqsUpTo(HistoryMessages, MaxMessages)}
    IN
    /\ QueryIdle
    /\ fn_call \in {[fn |-> f, arg |-> a] :
                      f \in {"_format_conversation_history", "_format_history"},
                      a \in HistoryArguments}
    /\ fn_result = None

CallFormatConversationHistory ==
    LET format_conversation_history(use_conversation_history, max_history_messages, messages) ==
            \* Python's s[-n:]
            LET last_items(s, n) ==
                    IF n = 0 THEN s
                    ELSE IF n > 0 THEN SubSeq(s, IF Len(s) > n THEN Len(s) - n + 1 ELSE 1, Len(s))
                    ELSE SubSeq(s, 1 - n, Len(s))
            IN
            IF ~use_conversation_history \/ messages = <<>> THEN EmptyHistory
            ELSE LET all == before_last(messages)
                     history_messages == IF Len(all) > max_history_messages
                                         THEN last_items(all, max_history_messages)
                                         ELSE all
                 IN  IF history_messages = <<>> THEN EmptyHistory
                     ELSE [header |-> TRUE, turns |-> format_turns(history_messages)]
    IN
    /\ fn_call.fn = "_format_conversation_history"
    /\ IsNone(fn_result)
    /\ fn_result' = Some(format_conversation_history(fn_call.arg.use_conversation_history,
                                                     fn_call.arg.max_history_messages,
                                                     fn_call.arg.messages))
    /\ UNCHANGED <<fn_call, query_vars>>

\* Pipeline has neither of the two history valves
CallFormatHistory ==
    LET format_history(messages) ==
            LET history_messages == before_last(messages) IN
            IF history_messages = <<>> THEN EmptyHistory
            ELSE [header |-> TRUE, turns |-> format_turns(history_messages)]
    IN
    /\ fn_call.fn = "_format_history"
    /\ IsNone(fn_result)
    /\ fn_result' = Some(format_history(fn_call.arg.messages))
    /\ UNCHANGED <<fn_call, query_vars>>

FHNext == CallFormatConversationHistory \/ CallFormatHistory

SpecFH == FHInit /\ [][FHNext]_vars

----------------------------------------------------------------------------
(* Status emission: Pipe.emit_status, called by the queries that run on one *)
(* instance.  A call that emits hands the event to the emitter and is       *)
(* suspended in that await; other queries run until the emitter returns.    *)

\* one emit_status call: the query that made it, whether an emitter was
\* given, the argument done, the clock it read, the event handed to the
\* emitter (None when none was) and whether the emitter raised
StatusCall(q, emitter, done, at, event) ==
    [query |-> q, emitter |-> emitter, done |-> done, at |-> at, event |-> event,
     raised |-> FALSE]

\* emit_status up to the await of the emitter: emitter says whether
\* __event_emitter__ was given
Pipe_emit_status(q, emitter, done) ==
    \* the condition of lines 362-367
    LET should_emit(current_time) ==
            /\ valves.enable_status_indicator
            /\ (current_time - last_emit_time >= valves.emit_interval \/ done)
    IN
    LET StatusEvent ==
            [type |-> "status", status |-> IF done THEN "complete" ELSE "in_progress", done |-> done]
    IN
    /\ IsNone(emit_calls[q])
    /\ Len(status_log) < MaxCalls
    /\ IF emitter /\ should_emit(now)
       THEN /\ status_log' = Append(status_log,
                                    StatusCall(q, emitter, done, now, Some(StatusEvent)))
            /\ emit_calls' = [emit_calls EXCEPT ![q] = Some([current_time |-> now])]
       ELSE /\ status_log' = Append(status_log, StatusCall(q, emitter, done, now, None))
            /\ UNCHANGED emit_calls
    /\ UNCHANGED <<last_emit_time, now>>
    /\ UNCHANGED <<fn_call, fn_result, variant, valves, client_vars, pc, body,
                   datetime_refs, metadata_filter, retrieved_results, context,
                   kb_response, outcome, last_response, trace>>

\* the awaited emitter returns and line 379 runs, or it raises: the
\* exception leaves emit_status and last_emit_time keeps its value
Pipe_emit_status_resume(q, raises) ==
    LET last_call == CHOOSE i \in 1..Len(status_log) :
                         /\ status_log[i].query = q
                         /\ \A j \in (i + 1)..Len(status_log) : status_log[j].query # q
    IN
    /\ ~IsNone(emit_calls[q])
    /\ last_emit_time' = IF raises THEN last_emit_time
                         ELSE emit_calls[q][1].current_time
    /\ emit_calls' = [emit_calls EXCEPT ![q] = None]
    /\ status_log' = [status_log EXCEPT ![last_call].raised = raises]
    /\ UNCHANGED now
    /\ UNCHANGED <<fn_call, fn_result, variant, valves, client_vars, pc, body,
                   datetime_refs, metadata_filter, retrieved_results, context,
                   kb_response, outcome, last_response, trace>>

\* time passes
Tick ==
    /\ now < MaxInterval + MaxTicks
    /\ now' = now + 1
    /\ UNCHANGED <<last_emit_time, emit_calls, status_log>>
    /\ UNCHANGED <<fn_call, fn_result, variant, valves, client_vars, pc, body,
                   datetime_refs, metadata_filter, retrieved_results, context,
                   kb_response, outcome, last_response, trace>>

ESInit ==
    LET StatusValves ==
            {[enable_status_indicator |-> e, emit_interval |-> i] :
                e \in BOOLEAN, i \in 1..MaxInterval}
    IN
    /\ FnIdle
    /\ StatusIdle
    /\ variant = "Pipe"
    /\ valves \in StatusValves
    /\ clients_initialized = FALSE
    /\ bedrock_client = None
    /\ bedrock_agent_client = None
    /\ pc = "idle"
    /\ body = [messages |-> None]
    /\ datetime_refs = <<>>
    /\ metadata_filter = None
    /\ retrieved_results = <<>>
    /\ context = <<>>
    /\ kb_response = None
    /\ outcome = None
    /\ last_response = None
    /\ trace = <<>>

ESNext ==
    \/ \E q \in Queries, emitter \in BOOLEAN, done \in BOOLEAN : Pipe_emit_status(q, emitter, done)
    \/ \E q \in Queries, raises \in BOOLEAN : Pipe_emit_status_resume(q, raises)
    \/ Tick

SpecES == ESInit /\ [][ESNext]_vars

----------------------------------------------------------------------------
(* Specification of _generate_citations on its own, called as              *)
(* src/test_citations.py calls it: an answer, a passage list and the       *)
(* enable_citations valve are chosen, then the function is applied.        *)

CIInit ==
    LET CitationArguments ==
            LET CitationAnswers ==
                    {"The answer.", "Test answer"}
            IN
            {[answer |-> a, retrieved_results |-> rs] :
                a \in CitationAnswers, rs \in SeqsUpTo(PassageResults, MaxResults)}
    IN
    /\ StatusIdle
    /\ variant = "Pipe"
    \* the valves with the enable_citations valve that the tests set
    /\ valves \in {[enable_citations |-> cite]
                     @@ ValvesOf(TRUE, TRUE, TRUE, FALSE, "empty", "claude3") :
                     cite \in BOOLEAN}
    /\ clients_initialized = TRUE
    /\ bedrock_client = Some("bedrock-runtime")
    /\ bedrock_agent_client = Some("bedrock-agent-runtime")
    /\ pc = "idle"
    /\ body = [messages |-> None]
    /\ datetime_refs = <<>>
    /\ metadata_filter = None
    /\ retrieved_results = <<>>
    /\ context = <<>>
    /\ kb_response = None
    /\ outcome = None
    /\ last_response = None
    /\ trace = <<>>
    /\ fn_call \in {[fn |-> "_generate_citations", arg |-> a] : a \in CitationArguments}
    /\ fn_result = None

\* one call of _generate_citations; resp is what the model answers if asked
CallGenerateCitations(resp) ==
    /\ fn_call.fn = "_generate_citations"
    /\ IsNone(fn_result)
    /\ IF citations_skipped(valves, fn_call.arg.retrieved_results)
       THEN /\ fn_result' = Some(fn_call.arg.answer)
            /\ UNCHANGED <<trace, last_response>>
       ELSE /\ last_response' = Some(resp)
            /\ trace' = Append(trace, Event("invoke_model:attribute_citations", None))
            /\ fn_result' = Some(generate_citations(fn_call.arg.answer,
                                                    fn_call.arg.retrieved_results, resp))
    /\ UNCHANGED <<fn_call, variant, valves, client_vars, pc, body, datetime_refs,
                   metadata_filter, retrieved_results, context, kb_response, outcome,
                   status_vars>>

CINext == \E resp \in CitationResponses : CallGenerateCitations(resp)

SpecCI == CIInit /\ [][CINext]_vars

----------------------------------------------------------------------------
(* Entity names: parse_name_elements.  A name is the sequence of its pieces, *)
(* a piece being a run of whitespace (Space) or a whitespace-free token; a  *)
(* token carries its text as written, the lower-case form of its letters    *)
(* and whether a period ends it.                                            *)

Space == [space |-> TRUE, text |-> " ", lower |-> "", period |-> FALSE]

NameToken(text, lower, period) ==
    [space |-> FALSE, text |-> text, lower |-> lower, period |-> period]

\* the closed set of honorific titles, in lower case
Titles ==
    {"dr", "doctor", "prof", "professor", "mr", "mrs", "ms", "sir", "rev", "capt", "captain"}

\* a title matched as written with a capital first letter only
is_title_case_sensitive(tok) == tok.lower \in Titles /\ tok.text \in {"Dr", "Sir", "Prof"}

\* case-insensitive, with or without the trailing period
is_title(tok) == tok.lower \in Titles

parse_name_elements(name) ==
    LET words == SelectSeq(name, LAMBDA p : ~p.space) IN
    IF words # <<>> /\ is_title(Head(words)) THEN Tail(words) ELSE words

----------------------------------------------------------------------------
(* Specification of parse_name_elements on its own *)

PNInit ==
    \* two tokens are always separated by whitespace
    LET Names ==
            LET NameTokens ==
                    {NameToken("Dr", "dr", TRUE), NameToken("Dr", "dr", FALSE),
                     NameToken("PROF", "prof", TRUE), NameToken("sir", "sir", FALSE),
                     NameToken("Drake", "drake", FALSE), NameToken("John", "john", FALSE),
                     NameToken("JOHN", "john", FALSE), NameToken("smith", "smith", FALSE),
                     NameToken("Jr", "jr", TRUE)}
            IN
            {n \in SeqsUpTo(NameTokens \cup {Space}, MaxPieces) :
                \A i \in 1..(Len(n) - 1) : n[i].space \/ n[i + 1].space}
    IN
    /\ QueryIdle
    /\ fn_call \in {[fn |-> "parse_name_elements", arg |-> n] : n \in Names}
    /\ fn_result = None

CallParseNameElements ==
    /\ fn_call.fn = "parse_name_elements"
    /\ IsNone(fn_result)
    /\ fn_result' = Some(parse_name_elements(fn_call.arg))
    /\ UNCHANGED <<fn_call, query_vars>>

PNNext == CallParseNameElements

SpecPN == PNInit /\ [][PNNext]_vars

----------------------------------------------------------------------------
(* The enhanced query of _generate_metadata_filter.  A text is the sequence  *)
(* of its atoms (substrings that are matched as wholes); an ISO date-time is *)
(* the atom of its year followed by the atom of the rest.                    *)

\* f" (from {ref['start_iso']} to {ref['end_iso']})"
annotation(ref) == <<" (from ">> \o ref.start_iso \o <<" to ">> \o ref.end_iso \o <<")">>

\* the loop `for ref in datetime_refs` from ref i on, over enhanced_query
RECURSIVE enhance_query(_, _, _)
enhance_query(enhanced_query, refs, i) ==
    \* str.replace(old, new, 1): the first occurrence, the start for an empty old
    LET replace_first(s, old, new) ==
            LET occurrences == {p \in 1..(Len(s) - Len(old) + 1) :
                                   SubSeq(s, p, p + Len(old) - 1) = old}
            IN  IF occurrences = {} THEN s
                ELSE LET first == CHOOSE k \in occurrences : \A o \in occurrences : k <= o
                     IN  SubSeq(s, 1, first - 1) \o new \o SubSeq(s, first + Len(old), Len(s))
    IN
    IF i > Len(refs) THEN enhanced_query
    ELSE enhance_query(replace_first(enhanced_query, refs[i].original,
                                     refs[i].original \o annotation(refs[i])),
                       refs, i + 1)

----------------------------------------------------------------------------
(* Specification of the query enhancement on its own *)

EQInit ==
    LET EnhanceArguments ==
            LET QueryAtoms == {"last August", "2025", " and "}
                August == [start_iso |-> <<"2025", "-08-01T00:00:00Z">>,
                           end_iso |-> <<"2025", "-08-31T23:59:59Z">>]
                Year == [start_iso |-> <<"2025", "-01-01T00:00:00Z">>,
                         end_iso |-> <<"2025", "-12-31T23:59:59Z">>]
                Refs == {[original |-> <<"last August">>] @@ August,
                         [original |-> <<"2025">>] @@ Year,
                         [original |-> <<"last August", " and ", "2025">>] @@ August,
                         [original |-> <<>>] @@ Year}
            IN  {[query |-> q, datetime_refs |-> rs] :
                    q \in SeqsUpTo(QueryAtoms, MaxAtoms), rs \in SeqsUpTo(Refs, MaxRefs)}
    IN
    /\ QueryIdle
    /\ fn_call \in {[fn |-> "enhanced_query", arg |-> a] : a \in EnhanceArguments}
    /\ fn_result = None

CallEnhanceQuery ==
    /\ fn_call.fn = "enhanced_query"
    /\ IsNone(fn_result)
    /\ fn_result' = Some(enhance_query(fn_call.arg.query, fn_call.arg.datetime_refs, 1))
    /\ UNCHANGED <<fn_call, query_vars>>

EQNext == CallEnhanceQuery

SpecEQ == EQInit /\ [][EQNext]_vars

----------------------------------------------------------------------------
(* Valve values and the requests that carry them.  temperature and top_p    *)
(* are written in tenths (7 is 0.7).  A request is recorded in trace with   *)
(* the parameters it carries.                                               *)

\* self.valves = self.Valves(**values): Pipe.Valves runs its validators and a
\* ValueError leaves self.valves as it was; Pipeline.Valves declares none
Valves_construct(v) ==
    \* the three @validator methods of Pipe.Valves, run when a Valves object is
    \* constructed: TRUE when none raises ValueError
    LET validators(values) ==
            /\ ~(values.temperature < 0 \/ values.temperature > 10)
            /\ ~(values.top_p < 0 \/ values.top_p > 10)
            /\ ~(values.number_of_results < 1 \/ values.number_of_results > 100)
    IN
    /\ pc = "idle"
    /\ valves' = IF variant = "Pipe" /\ ~validators(v) THEN valves ELSE v
    /\ valves' # valves
    /\ UNCHANGED <<variant, client_vars, pc, body, datetime_refs, metadata_filter,
                   retrieved_results, context, kb_response, outcome, last_response, trace,
                   fn_vars>>

\* self.valves.<field> = value: no validate_assignment is configured, the
\* validators do not run
Valves_assign(field, value) ==
    /\ pc = "idle"
    /\ valves' = [valves EXCEPT ![field] = value]
    /\ valves' # valves
    /\ UNCHANGED <<variant, client_vars, pc, body, datetime_refs, metadata_filter,
                   retrieved_results, context, kb_response, outcome, last_response, trace,
                   fn_vars>>

\* the retrieve request of a query: numberOfResults is read from the valves
Retrieve_request ==
    /\ pc = "idle"
    /\ Len(trace) < MaxRequests
    /\ trace' = Append(trace, Event("retrieve",
                                    Some([numberOfResults |-> valves.number_of_results])))
    /\ UNCHANGED <<variant, valves, client_vars, pc, body, datetime_refs,
                   metadata_filter, retrieved_results, context, kb_response, outcome,
                   last_response, fn_vars>>

\* the generation request of a query: _get_model_request_body of Pipe, the
\* request_body of Pipeline.pipe
Generation_request ==
    /\ pc = "idle"
    /\ Len(trace) < MaxRequests
    /\ trace' = Append(trace, Event("invoke_model:generate_answer",
                                    Some([temperature |-> valves.temperature,
                                          top_p |-> valves.top_p])))
    /\ UNCHANGED <<variant, valves, client_vars, pc, body, datetime_refs,
                   metadata_filter, retrieved_results, context, kb_response, outcome,
                   last_response, fn_vars>>

VAInit ==
    /\ FnIdle
    /\ StatusIdle
    /\ variant \in {"Pipe", "Pipeline"}
    /\ valves = [temperature |-> 7, top_p |-> 9, number_of_results |-> 5]
    /\ clients_initialized = FALSE
    /\ bedrock_client = None
    /\ bedrock_agent_client = None
    /\ pc = "idle"
    /\ body = [messages |-> None]
    /\ datetime_refs = <<>>
    /\ metadata_filter = None
    /\ retrieved_results = <<>>
    /\ context = <<>>
    /\ kb_response = None
    /\ outcome = None
    /\ last_response = None
    /\ trace = <<>>

VANext ==
    \/ \E t \in {0, 11}, p \in {10, 11}, n \in {1, 101} :
          Valves_construct([temperature |-> t, top_p |-> p, number_of_results |-> n])
    \/ \E field \in {"temperature", "top_p"}, value \in {0, 11} :
          Valves_assign(field, value)
    \/ \E value \in {0, 100} : Valves_assign("number_of_results", value)
    \/ Retrieve_request
    \/ Generation_request

SpecVA == VAInit /\ [][VANext]_vars

----------------------------------------------------------------------------
(* Client initialization on its own: _initialize_clients is called by the   *)
(* queries and, for Pipeline, by on_valves_updated.  trace records each     *)
(* call and what boto3 created for it.                                      *)

\* a call of _initialize_clients as the queries make it
CallInitializeClients(result) ==
    LET after == initialize_clients(clients_initialized, result) IN
    /\ result \in InitResults(variant)
    /\ Cardinality({i \in 1..Len(trace) : trace[i].step = "_initialize_clients"})
          < MaxInitCalls
    /\ clients_initialized' = after.initialized
    /\ bedrock_client' = after.bedrock_client
    /\ bedrock_agent_client' = after.bedrock_agent_client
    /\ trace' = Append(trace, Event("_initialize_clients", None)) \o after.created
    /\ UNCHANGED <<variant, valves, pc, body, datetime_refs, metadata_filter,
                   retrieved_results, context, kb_response, outcome, last_response,
                   fn_vars>>

\* Pipeline.on_valves_updated: set_pipelines recomputes the pipeline list from
\* the valves, the flag is cleared and _initialize_clients runs
Pipeline_on_valves_updated(result) ==
    LET after == initialize_clients(FALSE, result) IN
    /\ variant = "Pipeline"
    /\ result \in InitResults(variant)
    /\ Cardinality({i \in 1..Len(trace) : trace[i].step = "_initialize_clients"})
          < MaxInitCalls
    /\ clients_initialized' = after.initialized
    /\ bedrock_client' = after.bedrock_client
    /\ bedrock_agent_client' = after.bedrock_agent_client
    /\ trace' = trace \o <<Event("on_valves_updated", None),
                           Event("_initialize_clients", None)>> \o after.created
    /\ UNCHANGED <<variant, valves, pc, body, datetime_refs, metadata_filter,
                   retrieved_results, context, kb_response, outcome, last_response,
                   fn_vars>>

ICInit ==
    /\ FnIdle
    /\ StatusIdle
    /\ variant \in {"Pipe", "Pipeline"}
    /\ valves = ValvesOf(TRUE, TRUE, TRUE, FALSE, "empty", "claude3")
    /\ clients_initialized = FALSE
    /\ bedrock_client = None
    /\ bedrock_agent_client = None
    /\ pc = "idle"
    /\ body = [messages |-> None]
    /\ datetime_refs = <<>>
    /\ metadata_filter = None
    /\ retrieved_results = <<>>
    /\ context = <<>>
    /\ kb_response = None
    /\ outcome = None
    /\ last_response = None
    /\ trace = <<>>

ICNext ==
    \/ \E result \in InitResults("Pipe") : CallInitializeClients(result)
    \/ \E result \in InitResults("Pipeline") : Pipeline_on_valves_updated(result)

SpecIC == ICInit /\ [][ICNext]_vars

----------------------------------------------------------------------------
(* Pipe.pipe with its status emissions, invoked by the queries that run on  *)
(* one instance.  In this specification fn_call, pc, body, outcome,         *)
(* kb_response and status_log hold one value for each query (status_log     *)
(* the emit_status calls of the query, oldest first).  An invocation yields *)
(* to the other query and to the clock where it awaits the emitter; the     *)
(* emitter returns or raises.  query_knowledge_base, whose steps are those  *)
(* of the specification of request handling, is taken by what boto3 does    *)
(* when the clients are created: it returns a text, or the failed           *)
(* initialization leaves it as an exception.                                *)

\* Pipe.pipe of query q from the end of the emit_status call at pc[q] to its
\* next emit_status call, to the call of query_knowledge_base or to its end.
\* how tells how that call ended: "returns", "raises" (the emitter raised an
\* Exception) or "cancelled" (it raised asyncio.CancelledError, which is no
\* Exception and passes the except clause of line 960)
pipe(q, how) ==
    LET ErrorMessage == "Error during knowledge base query: <details>"
        goto(next) ==
            /\ pc' = [pc EXCEPT ![q] = next]
            /\ UNCHANGED <<body, outcome>>
        ends(bd, out) ==
            /\ pc' = [pc EXCEPT ![q] = "done"]
            /\ body' = [body EXCEPT ![q] = bd]
            /\ outcome' = [outcome EXCEPT ![q] = Some(out)]
        returns_error(b, message) ==
            ends(append_assistant(b, message), ErrorWrapper(message))
        \* the exception leaves Pipe.pipe
        escapes(b) ==
            ends(b, Escaped(IF how = "cancelled" THEN "CancelledError" ELSE "Exception"))
        \* an exception inside the try block of lines 924-958
        in_try(b) ==
            IF how = "cancelled" THEN escapes(b) ELSE goto("emit_handler")
        \* lines 919-948 after extract_event_info
        checks(b, messages) ==
            IF messages = <<>> THEN goto("emit_no_messages")
            ELSE IF IsNone(messages[Len(messages)].content)
            THEN ends(b, Escaped("KeyError"))
            ELSE IF ~IsNone(configuration_error(valves)) THEN goto("emit_config")
            ELSE IF valves.use_conversation_history THEN goto("emit_history")
            ELSE goto("emit_retrieving")
        \* line 918: extract_event_info reads __event_emitter__.__closure__,
        \* which a callable that is no function does not have
        extract_event_info(emitter, b) ==
            IF emitter = "no_closure" THEN ends(b, Escaped("AttributeError"))
            ELSE checks(b, IF IsNone(b.messages) THEN <<>> ELSE b.messages[1])
        after(p, b) ==
            CASE p = "emit_start" ->
                   IF how # "returns" THEN escapes(b)
                   ELSE extract_event_info(fn_call[q].arg[1].emitter, b)
              [] p = "emit_no_messages" ->
                   IF how # "returns" THEN escapes(b)
                   ELSE IF IsNone(b.messages) THEN ends(b, Escaped("KeyError"))
                   ELSE returns_error(b, NoMessagesMessage)
              [] p = "emit_config" ->
                   IF how # "returns" THEN in_try(b)
                   ELSE returns_error(b, configuration_error(valves)[1])
              [] p = "emit_history" ->
                   IF how # "returns" THEN in_try(b) ELSE goto("emit_retrieving")
              [] p = "emit_retrieving" ->
                   IF how # "returns" THEN in_try(b) ELSE goto("query")
              [] p = "emit_complete" ->
                   IF how # "returns" THEN in_try(b)
                   ELSE ends(b, Returned(kb_response[q][1]))
              [] p = "emit_handler" ->
                   IF how # "returns" THEN escapes(b)
                   ELSE returns_error(b, ErrorMessage)
    IN
    after(pc[q], body[q])

\* query q invokes Pipe.pipe with the body b; emitter says what
\* __event_emitter__ is: "absent" (None), "returns" (a function whose calls
\* return), "may_raise" (a function whose calls return or raise, call by
\* call) or "no_closure" (a callable without __closure__, such as a
\* functools.partial, whose calls return)
CallPipe(q, b, emitter) ==
    /\ pc[q] = "idle"
    /\ fn_call' = [fn_call EXCEPT ![q] = [fn |-> "pipe",
                                          arg |-> Some([body |-> b, emitter |-> emitter])]]
    /\ pc' = [pc EXCEPT ![q] = "emit_start"]
    /\ body' = [body EXCEPT ![q] = b]
    /\ UNCHANGED <<fn_result, variant, valves, client_vars, datetime_refs,
                   metadata_filter, retrieved_results, context, kb_response, outcome,
                   last_response, trace, status_vars>>

\* the emit_status call at pc[q] up to the await of the emitter; Pipe.pipe
\* goes on when the emitter is not awaited
Pipe_pipe_emit_status(q) ==
    \* the positions of Pipe.pipe at which emit_status is called (lines 914,
    \* 978, 928 and 935, 942, 948, 957, 962), with the argument done of the call
    LET EmitCalls ==
            [emit_start |-> FALSE, emit_no_messages |-> TRUE, emit_config |-> TRUE,
             emit_history |-> FALSE, emit_retrieving |-> FALSE, emit_complete |-> TRUE,
             emit_handler |-> TRUE]
        emitting(emitter, done) ==
            LET awaited == /\ emitter # "absent"
                           /\ valves.enable_status_indicator
                           /\ (now - last_emit_time >= valves.emit_interval \/ done)
                StatusEvent ==
                    [type |-> "status", status |-> IF done THEN "complete" ELSE "in_progress",
                     done |-> done]
            IN
            IF awaited
            THEN /\ status_log' = [status_log EXCEPT
                                    ![q] = Append(@, StatusCall(q, TRUE, done, now,
                                                                Some(StatusEvent)))]
                 /\ emit_calls' = [emit_calls EXCEPT ![q] = Some([current_time |-> now])]
                 /\ UNCHANGED <<pc, body, outcome>>
            ELSE /\ status_log' = [status_log EXCEPT
                                    ![q] = Append(@, StatusCall(q, emitter # "absent", done,
                                                                now, None))]
                 /\ UNCHANGED emit_calls
                 /\ pipe(q, "returns")
    IN
    /\ pc[q] \in DOMAIN EmitCalls
    /\ IsNone(emit_calls[q])
    /\ emitting(fn_call[q].arg[1].emitter, EmitCalls[pc[q]])
    /\ UNCHANGED <<last_emit_time, now>>
    /\ UNCHANGED <<fn_call, fn_result, variant, valves, client_vars, datetime_refs,
                   metadata_filter, retrieved_results, context, kb_response,
                   last_response, trace>>

\* the emitter awaited by query q returns (line 379 runs) or raises an
\* Exception or asyncio.CancelledError, and Pipe.pipe goes on
Pipe_pipe_resume(q, how) ==
    /\ ~IsNone(emit_calls[q])
    /\ how # "returns" => fn_call[q].arg[1].emitter = "may_raise"
    /\ last_emit_time' = IF how # "returns" THEN last_emit_time
                         ELSE emit_calls[q][1].current_time
    /\ emit_calls' = [emit_calls EXCEPT ![q] = None]
    /\ status_log' = [status_log EXCEPT ![q][Len(status_log[q])].raised = (how # "returns")]
    /\ pipe(q, how)
    /\ UNCHANGED now
    /\ UNCHANGED <<fn_call, fn_result, variant, valves, client_vars, datetime_refs,
                   metadata_filter, retrieved_results, context, kb_response,
                   last_response, trace>>

\* lines 952-955: query_knowledge_base calls _initialize_clients first and
\* runs without yielding; its text is appended to the messages
Pipe_pipe_query(q, result) ==
    LET after == initialize_clients(clients_initialized, result) IN
    /\ pc[q] = "query"
    /\ result \in InitResults("Pipe")
    /\ clients_initialized' = after.initialized
    /\ bedrock_client' = after.bedrock_client
    /\ bedrock_agent_client' = after.bedrock_agent_client
    /\ IF after.raised
       THEN /\ pc' = [pc EXCEPT ![q] = "emit_handler"]
            /\ UNCHANGED <<kb_response, body>>
       ELSE /\ pc' = [pc EXCEPT ![q] = "emit_complete"]
            /\ kb_response' = [kb_response EXCEPT ![q] = Some("answer")]
            /\ body' = [body EXCEPT ![q] = append_assistant(body[q], "answer")]
    /\ UNCHANGED <<fn_call, fn_result, variant, valves, datetime_refs, metadata_filter,
                   retrieved_results, context, outcome, last_response, trace, status_vars>>

PPInit ==
    /\ last_emit_time = 0
    /\ now = MaxInterval
    /\ emit_calls = [q \in Queries |-> None]
    /\ status_log = [q \in Queries |-> <<>>]
    /\ fn_call = [q \in Queries |-> [fn |-> "none", arg |-> None]]
    /\ fn_result = None
    /\ variant = "Pipe"
    /\ valves \in {[aws_access_key_id |-> key, aws_secret_access_key |-> secret,
                    knowledge_base_id |-> kb, use_conversation_history |-> history,
                    enable_status_indicator |-> indicator, emit_interval |-> interval] :
                      key \in BOOLEAN, secret \in BOOLEAN, kb \in BOOLEAN,
                      history \in BOOLEAN, indicator \in BOOLEAN,
                      interval \in 1..MaxInterval}
    /\ IsNone(configuration_error(valves))
         \/ (~valves.use_conversation_history /\ valves.emit_interval = MaxInterval)
    /\ clients_initialized = FALSE
    /\ bedrock_client = None
    /\ bedrock_agent_client = None
    /\ pc = [q \in Queries |-> "idle"]
    /\ body = [q \in Queries |-> [messages |-> None]]
    /\ datetime_refs = <<>>
    /\ metadata_filter = None
    /\ retrieved_results = <<>>
    /\ context = <<>>
    /\ kb_response = [q \in Queries |-> None]
    /\ outcome = [q \in Queries |-> None]
    /\ last_response = None
    /\ trace = <<>>

PPNext ==
    \/ \E b \in Bodies \ {[messages |-> Some(<<Question>>)]},
          emitter \in {"absent", "may_raise", "no_closure"} : CallPipe("A", b, emitter)
    \/ CallPipe("B", [messages |-> Some(<<Question>>)], "returns")
    \/ \E q \in Queries : Pipe_pipe_emit_status(q)
    \/ \E q \in Queries, how \in {"returns", "raises", "cancelled"} :
          Pipe_pipe_resume(q, how)
    \/ \E q \in Queries, result \in InitResults("Pipe") : Pipe_pipe_query(q, result)
    \/ Tick

SpecPP == PPInit /\ [][PPNext]_vars

----------------------------------------------------------------------------
(* Pipeline.set_pipelines.  A valve string is the sequence of its           *)
(* characters.                                                              *)

\* set_pipelines without the fallback of lines 65-66
set_pipelines_without_fallback(knowledge_base_ids, knowledge_base_names) ==
    LET \* s.split(";"): the pieces between the separators, empty ones included
        split(s) ==
            LET seps == {p \in 1..Len(s) : s[p] = ";"}
                \* position of the k-th separator, 0 and Len(s) + 1 at the ends
                sep(k) == IF k = 0 THEN 0
                          ELSE IF k > Cardinality(seps) THEN Len(s) + 1
                          ELSE CHOOSE p \in seps : Cardinality({q \in seps : q < p}) = k - 1
            IN [k \in 1..(Cardinality(seps) + 1) |-> SubSeq(s, sep(k - 1) + 1, sep(k) - 1)]
        ids == SelectSeq(split(knowledge_base_ids), LAMBDA i : i # <<>>)
        names == SelectSeq(split(knowledge_base_names), LAMBDA n : n # <<>>)
        shorter == IF Len(ids) < Len(names) THEN Len(ids) ELSE Len(names)
        \* zip(ids, names)
        pipelines == [k \in 1..shorter |-> [id |-> ids[k], name |-> names[k]]]
    IN
    IF FALSE
    THEN [k \in 1..Len(ids) |-> [id |-> ids[k], name |-> ids[k]]]
    ELSE pipelines

\* self.pipelines as set_pipelines computes it from the two valve strings
set_pipelines(knowledge_base_ids, knowledge_base_names) ==
    LET \* s.split(";"): the pieces between the separators, empty ones included
        split(s) ==
            LET seps == {p \in 1..Len(s) : s[p] = ";"}
                \* position of the k-th separator, 0 and Len(s) + 1 at the ends
                sep(k) == IF k = 0 THEN 0
                          ELSE IF k > Cardinality(seps) THEN Len(s) + 1
                          ELSE CHOOSE p \in seps : Cardinality({q \in seps : q < p}) = k - 1
            IN [k \in 1..(Cardinality(seps) + 1) |-> SubSeq(s, sep(k - 1) + 1, sep(k) - 1)]
        ids == SelectSeq(split(knowledge_base_ids), LAMBDA i : i # <<>>)
        names == SelectSeq(split(knowledge_base_names), LAMBDA n : n # <<>>)
        shorter == IF Len(ids) < Len(names) THEN Len(ids) ELSE Len(names)
        \* zip(ids, names)
        pipelines == [k \in 1..shorter |-> [id |-> ids[k], name |-> names[k]]]
    IN
    IF pipelines = <<>> /\ ids # <<>>
    THEN [k \in 1..Len(ids) |-> [id |-> ids[k], name |-> ids[k]]]
    ELSE pipelines

SPInit ==
    /\ QueryIdle
    /\ fn_call \in {[fn |-> "set_pipelines",
                     arg |-> [knowledge_base_ids |-> ids, knowledge_base_names |-> names]] :
                        ids \in SeqsUpTo({"a", "b", ";"}, MaxIdChars),
                        names \in SeqsUpTo({"x", ";"}, MaxNameChars)}
    /\ fn_result = None

CallSetPipelines ==
    /\ fn_call.fn = "set_pipelines"
    /\ IsNone(fn_result)
    /\ fn_result' = Some(set_pipelines(fn_call.arg.knowledge_base_ids,
                                       fn_call.arg.knowledge_base_names))
    /\ UNCHANGED <<fn_call, query_vars>>

SPNext == CallSetPipelines

SpecSP == SPInit /\ [][SPNext]_vars

----------------------------------------------------------------------------
(* Properties *)

HasStep(name) == \E i \in 1..Len(trace) : trace[i].step = name

QueryReturned == ~IsNone(kb_response)

\* C1: whenever the retrieval call returned no passage with text, the query
\* returns exactly the fixed "I couldn't find any relevant information"
\* string and no answer generation call is issued
C1_NoPassageNoGeneration ==
    (/\ HasStep("assemble_context")
     /\ \A i \in 1..Len(retrieved_results) : ~has_text(retrieved_results[i]))
    => /\ kb_response = Some(NoResultsMessage)
       /\ ~HasStep("invoke_model:generate_answer")

StepRank(step) ==
    CASE step = "invoke_model:extract_datetime" -> 1
      [] step = "invoke_model:generate_filter"  -> 2
      [] step = "filter_resolved"               -> 3
      [] step = "retrieve"                      -> 4
      [] step = "assemble_context"              -> 5
      [] step = "invoke_model:generate_answer"  -> 6

Preceded(j, name) == \E i \in 1..(j - 1) : trace[i].step = name

\* C2: the steps of a request occur in strict order and none twice: filter
\* resolution ends before the retrieve call, the retrieve call returns before
\* context assembly, context assembly precedes the generation call, and the
\* generation call is the last step of the query, so that nothing that works
\* on the generated answer starts before the generation call has returned
C2_StepsInOrder ==
    /\ \A i, j \in 1..Len(trace) :
          i < j => StepRank(trace[i].step) < StepRank(trace[j].step)
    /\ \A j \in 1..Len(trace) :
          /\ trace[j].step = "retrieve" => Preceded(j, "filter_resolved")
          /\ trace[j].step = "assemble_context" => Preceded(j, "retrieve")
          /\ trace[j].step = "invoke_model:generate_answer" => Preceded(j, "assemble_context")
          /\ trace[j].step = "invoke_model:generate_answer" => j = Len(trace)
    /\ pc = "context" => HasStep("retrieve")
    /\ pc = "generate" => HasStep("assemble_context")
    /\ (variant = "Pipe" /\ kb_response = Some("The answer."))
          => HasStep("invoke_model:generate_answer")

C2_Witness ==
    /\ pc = "done"
    /\ [i \in 1..Len(trace) |-> trace[i].step] =
          <<"invoke_model:extract_datetime", "invoke_model:generate_filter",
            "filter_resolved", "retrieve", "assemble_context",
            "invoke_model:generate_answer">>
    /\ kb_response = Some("The answer.")

FailedResponse(resp) ==
    \/ resp.kind \in {"ClientError", "Exception", "bad_envelope"}
    \/ resp.kind = "text" /\ IsNone(resp.text.payload)

LastStep == trace[Len(trace)].step

\* C4: an exception raised during filter synthesis (invalid definitions JSON,
\* failed model call, malformed envelope, undecodable model text) never leaves
\* _generate_metadata_filter: the filter is absent and the request goes on to
\* the retrieve call
C4_SynthesisFailsSoft ==
    /\ (/\ trace # <<>>
        /\ LastStep \in {"invoke_model:generate_filter", "filter_resolved"}
        /\ ~IsNone(last_response)
        /\ FailedResponse(last_response[1]))
       => /\ LastStep = "filter_resolved"
          /\ metadata_filter = None
          /\ pc = "retrieve"
    /\ (/\ valves.enable_metadata_filtering
        /\ valves.metadata_definitions = "invalid"
        /\ pc \notin {"idle", "init_clients", "filter"}
        /\ IsNone(outcome) \/ QueryReturned)
       => /\ trace # <<>>
          /\ trace[1] = Event("filter_resolved", None)
          /\ metadata_filter = None
          /\ Len(trace) = 1 => pc = "retrieve"
          /\ Len(trace) > 1 => trace[2] = Event("retrieve", None)

C4_Witness ==
    /\ pc = "retrieve"
    /\ HasStep("invoke_model:generate_filter")
    /\ last_response = Some(ClientError("AccessDeniedException", {}))
    /\ metadata_filter = None

\* C5: with filtering disabled, or with an empty definition list, filter
\* synthesis returns absent without any model call: neither the date/time
\* extraction call nor the filter generation call is issued
C5_NoCallWithoutDefinitions ==
    (~valves.enable_metadata_filtering \/ valves.metadata_definitions = "empty")
    => /\ ~HasStep("invoke_model:extract_datetime")
       /\ ~HasStep("invoke_model:generate_filter")
       /\ pc \notin {"extract_call", "filter_call"}
       /\ metadata_filter = None

C5_Witness ==
    /\ valves.enable_metadata_filtering
    /\ valves.metadata_definitions = "empty"
    /\ HasStep("retrieve")
    /\ pc = "done"

AbsentPayload(p) == IsNone(p) \/ p = Some(JNull) \/ p = Some(JEmptyObj)

\* C6: a filter answer that is {}, null or not JSON gives an absent filter;
\* the retrieval request carries a filter exactly when synthesis returned one,
\* and then it is the synthesized value unchanged
C6_FilterAttachedUnchanged ==
    /\ (/\ trace # <<>>
        /\ LastStep = "filter_resolved"
        /\ ~IsNone(last_response)
        /\ last_response[1].kind = "text"
        /\ AbsentPayload(last_response[1].text.payload))
       => metadata_filter = None
    /\ \A i \in 1..Len(trace) :
          /\ trace[i].step = "retrieve" => trace[i].detail = metadata_filter
          /\ trace[i].step = "filter_resolved" => trace[i].detail = metadata_filter

C6_Witness ==
    /\ pc = "done"
    /\ \E i \in 1..Len(trace) :
          trace[i].step = "retrieve" /\ trace[i].detail = Some(AuthorEquals)

RangeCalled == fn_call.fn = "parse_datetime_range" /\ ~IsNone(fn_result)

SingleCalled == fn_call.fn = "parse_datetime_to_formats" /\ ~IsNone(fn_result)

\* C7: every "from A to B" string whose two sides parse resolves to a range
\* with end_unix >= start_unix
C7_EndNotBeforeStart ==
    (RangeCalled /\ ~IsNone(fn_result[1][2]) /\ ~IsNone(fn_result[1][4]))
    => fn_result[1][4][1] >= fn_result[1][2][1]

\* the instant written in a "YYYY-MM-DDTHH:MM:SSZ" text, as epoch seconds
InstantOfIsoZ(t) == WallSeconds(t.Y, t.a, t.b, t.h, t.mi, t.s)

\* C8: for every datetime string that parses, the ISO output is the UTC
\* instant at second precision with trailing Z, the same instant as the
\* returned epoch second; an input already in that form is returned as is
C8_IsoDenotesUnix ==
    (SingleCalled /\ ~IsNone(fn_result[1][1]))
    => /\ fn_result[1][1][1].shape = "isoZ"
       /\ ~IsNone(fn_result[1][2])
       /\ InstantOfIsoZ(fn_result[1][1][1]) = fn_result[1][2][1]
       /\ fn_call.arg.shape = "isoZ" => fn_result[1][1][1] = fn_call.arg

AllAbsent(r) == \A i \in 1..4 : IsNone(r[i])

AllPresent(r) == \A i \in 1..4 : ~IsNone(r[i])

\* the tokens of range_str are "from", one text, "to", one text
FromAToB(r) == r.isstr /\ Len(r.toks) = 4 /\ IsFrom(r.toks[1]) /\ IsTo(r.toks[3])

SideParses(t) == ~IsNone(parse_datetime_to_formats(t)[1])

\* C9: parse_datetime_range returns four absent values when the input does
\* not match the from...to pattern or a side does not parse, and four present
\* values otherwise; never a mix
C9_AllOrNothing ==
    RangeCalled =>
      LET r == fn_result[1]
          a == fn_call.arg
      IN  /\ AllAbsent(r) \/ AllPresent(r)
          /\ (~a.isstr \/ Len(a.toks) < 4 \/ ~IsFrom(a.toks[1])
                \/ ~(\E k \in 1..Len(a.toks) : IsTo(a.toks[k])))
             => AllAbsent(r)
          /\ FromAToB(a) =>
               (AllPresent(r) <=> (SideParses(a.toks[2]) /\ SideParses(a.toks[4])))

C9_Witness ==
    /\ RangeCalled
    /\ FromAToB(fn_call.arg)
    /\ SideParses(fn_call.arg.toks[2])
    /\ ~SideParses(fn_call.arg.toks[4])
    /\ AllAbsent(fn_result[1])

\* an item that names a range which resolves on both sides
WellFormedItem(item) ==
    /\ item.isobj
    /\ ~IsNone(item.parsed)
    /\ AllPresent(parse_datetime_range(item.parsed[1]))

ExpectedRef(item) == ProcessedRef(item, parse_datetime_range(item.parsed[1]))

\* C10: _extract_datetime_references drops malformed items one by one: every
\* well-formed item of the answer is returned, in order
C10_BestEffortSubset ==
    (/\ fn_call.fn = "_extract_datetime_references"
     /\ ~IsNone(fn_result)
     /\ fn_call.arg.kind = "text"
     /\ ~IsNone(fn_call.arg.text.payload)
     /\ fn_call.arg.text.payload[1].t = "list")
    => LET good == SelectSeq(fn_call.arg.text.payload[1].items, WellFormedItem)
       IN  fn_result[1] = [i \in 1..Len(good) |-> ExpectedRef(good[i])]

----------------------------------------------------------------------------
(* Properties of _extract_filter_keys *)

FilterKeysCalled == fn_call.fn = "_extract_filter_keys" /\ ~IsNone(fn_result)

\* the operator of a filter tree node and what stands under it
NodeOp(t) == CHOOSE op \in DOMAIN t.members : TRUE

IsBranch(t) == NodeOp(t) \in {"andAll", "orAll"}

\* the key names of the leaf conditions of a filter tree
RECURSIVE LeafKeys(_)
LeafKeys(t) ==
    IF IsBranch(t)
    THEN UNION {LeafKeys(t.members[NodeOp(t)].items[i]) :
                   i \in 1..Len(t.members[NodeOp(t)].items)}
    ELSE {t.members[NodeOp(t)].members.key}

\* C11: for a filter tree of leaf conditions and nested andAll/orAll
\* branches _extract_filter_keys returns exactly the set of the leaves' key
\* names, for an absent or empty filter the empty set, and a second
\* traversal of the same filter returns the same set
C11_ExactLeafKeys ==
    FilterKeysCalled =>
       \A n \in 1..Len(fn_result[1]) :
          /\ IsNone(fn_call.arg) => fn_result[1][n] = Ok({})
          /\ fn_call.arg = Some(JEmptyObj) => fn_result[1][n] = Ok({})
          /\ (~IsNone(fn_call.arg) /\ fn_call.arg[1] \in FilterTrees)
                => fn_result[1][n] = Ok(LeafKeys(fn_call.arg[1]))

\* a tree with a repeated key below two levels of branches, traversed twice
C11_Witness ==
    /\ FilterKeysCalled
    /\ Len(fn_result[1]) = 2
    /\ fn_call.arg =
          Some(JObj([andAll |-> JList(<<
                 JObj([orAll |-> JList(<<AuthorEquals,
                                         Condition("greaterThanOrEquals",
                                                   JStr("created_at_unix"),
                                                   JNum(1754006400))>>)]),
                 JObj([andAll |-> JList(<<AuthorEquals>>)])>>)]))
    /\ fn_result[1][2] = Ok({JStr("author"), JStr("created_at_unix")})

\* C12: _extract_filter_keys returns a set for every value filter synthesis
\* can return, without raising, and leaves its argument as it was
C12_KeysNeverFail ==
    FilterKeysCalled =>
       \A n \in 1..Len(fn_result[1]) : ~Raised(fn_result[1][n])

----------------------------------------------------------------------------
(* Properties of context assembly *)

ContextAssembled ==
    /\ fn_call.fn = "assemble_context"
    /\ ~IsNone(fn_result)
    /\ ~Raised(fn_result[1])

\* the fields shown in the Metadata section of an entry
ShownFields(entry) ==
    IF IsNone(entry.metadata) THEN {} ELSE DOMAIN entry.metadata[1]

\* the fields a passage carries
CarriedFields(result) ==
    IF IsNone(result.metadata) THEN {} ELSE DOMAIN result.metadata[1]

\* a leaf condition {op: {"key": name, "value": v}} or an andAll/orAll
\* branch over filter trees
RECURSIVE IsFilterTree(_)
IsFilterTree(t) ==
    /\ t.t = "obj"
    /\ Cardinality(DOMAIN t.members) = 1
    /\ LET under == t.members[NodeOp(t)] IN
       IF IsBranch(t)
       THEN /\ under.t = "list"
            /\ \A i \in 1..Len(under.items) : IsFilterTree(under.items[i])
       ELSE /\ under.t = "obj"
            /\ DOMAIN under.members = {"key", "value"}
            /\ under.members.key.t = "str"

\* the key names of the filter of the query
FilterKeyNames(filter) ==
    IF IsNone(filter) THEN {}
    ELSE IF IsFilterTree(filter[1])
         THEN {k.s : k \in LeafKeys(filter[1])}
         ELSE {}

\* C13: the metadata fields shown for a passage with text are the fields it
\* carries that are source_uri, created_at_iso or a key of the query's
\* filter: the two fixed fields appear whenever carried, with or without a
\* filter, and no other field appears
C13_SelectiveMetadata ==
    ContextAssembled =>
       \A n \in 1..Len(fn_result[1].val) :
          LET entry  == fn_result[1].val[n]
              result == fn_call.arg.results[entry.index]
          IN  /\ has_text(result)
              /\ ShownFields(entry) =
                    ({"source_uri", "created_at_iso"} \cup FilterKeyNames(fn_call.arg.filter))
                       \cap CarriedFields(result)
              /\ \A f \in ShownFields(entry) : entry.metadata[1][f] = result.metadata[1][f]

\* a passage carrying all four fields under a filter on author: category is
\* left out, the other three are shown
C13_Witness ==
    /\ ContextAssembled
    /\ fn_call.arg.filter = Some(AuthorEquals)
    /\ \E n \in 1..Len(fn_result[1].val) :
          /\ CarriedFields(fn_call.arg.results[fn_result[1].val[n].index]) = MetadataFields
          /\ ShownFields(fn_result[1].val[n]) = {"source_uri", "created_at_iso", "author"}

----------------------------------------------------------------------------
(* Properties of the error messages *)

\* the kind of failure a returned message tells the user about
MessageClass(message) ==
    CASE message \in {"Error: Access denied to AWS Bedrock Knowledge Base. Please check your AWS credentials and permissions.",
                      "Error: Access denied to AWS Bedrock. Please check your AWS credentials and permissions."}
           -> "access-denied"
      [] message = "Error: Knowledge Base ID '<id>' not found. Please check your Knowledge Base ID."
           -> "resource-not-found"
      [] message \in {"Error: Invalid request to AWS Bedrock Knowledge Base. Please check your parameters.",
                      "Error: Invalid request to AWS Bedrock. Please check your model ID and parameters. Details: <details>"}
           -> "request-validation"
      [] message = "Error: AWS Bedrock request was throttled. Please try again later."
           -> "throttling"
      [] message = "Error: AWS Bedrock service quota exceeded. Please try again later or request a quota increase."
           -> "quota-exceeded"
      [] message \in {"AWS Bedrock Knowledge Base error: <details>", "AWS Bedrock error: <details>",
                      "Error querying knowledge base: <details>"}
           -> "generic"
      [] OTHER -> "none"

\* the kind of failure of a backend call
FailureClass(resp) ==
    IF resp.kind # "ClientError" THEN "generic"
    ELSE CASE resp.code = "AccessDeniedException" -> "access-denied"
           [] resp.code = "ResourceNotFoundException" -> "resource-not-found"
           [] resp.code = "ValidationException" -> "request-validation"
           [] resp.code = "ThrottlingException" -> "throttling"
           [] resp.code = "ServiceQuotaExceededException" -> "quota-exceeded"
           [] OTHER -> "generic"

BackendCallFailed ==
    /\ variant = "Pipe"
    /\ pc = "done"
    /\ trace # <<>>
    /\ LastStep \in {"retrieve", "invoke_model:generate_answer"}
    /\ last_response[1].kind \in {"ClientError", "Exception"}

\* C14: a failed retrieve call and a failed generation call are each returned
\* as an error string that tells access-denied, resource-not-found,
\* request-validation, throttling and quota-exceeded apart, and is the generic
\* backend message for every other failure
C14_ErrorsClassified ==
    BackendCallFailed => MessageClass(kb_response[1]) = FailureClass(last_response[1])

----------------------------------------------------------------------------
(* Properties of the number of backend calls *)

\* how often a step occurs in the trace of the request
StepCount(step) == Cardinality({i \in 1..Len(trace) : trace[i].step = step})

\* C16: within one query the date/time extraction call, the filter
\* generation call, the retrieve call and the answer generation call are
\* each issued at most once, also when the call has failed
C16_NoRetry ==
    \A step \in {"invoke_model:extract_datetime", "invoke_model:generate_filter",
                 "retrieve", "invoke_model:generate_answer"} :
       StepCount(step) <= 1

\* a query that ended after its generation call failed, all four calls issued
C16_Witness ==
    /\ pc = "done"
    /\ trace # <<>>
    /\ LastStep = "invoke_model:generate_answer"
    /\ last_response = Some(ClientError("ThrottlingException", {}))
    /\ StepCount("invoke_model:extract_datetime") = 1
    /\ StepCount("invoke_model:generate_filter") = 1
    /\ StepCount("retrieve") = 1
    /\ StepCount("invoke_model:generate_answer") = 1


\* the calls issued to the model and retrieval backends for the request
BackendCalls ==
    {i \in 1..Len(trace) :
        trace[i].step \in {"invoke_model:extract_datetime", "invoke_model:generate_filter",
                           "retrieve", "invoke_model:generate_answer"}}

\* C17 as stated: on every path through a query at most three calls are
\* issued to the model and retrieval backends
C17_AtMostThreeCalls == Cardinality(BackendCalls) <= 3

\* C17 amended: a query of Pipe issues at most four calls (date/time
\* extraction, filter generation, retrieval, answer generation), at most
\* three with filtering disabled; a query of Pipeline issues at most three
C17_AtMostFourCalls ==
    /\ Cardinality(BackendCalls) <= 4
    /\ ~valves.enable_metadata_filtering => Cardinality(BackendCalls) <= 3
    /\ variant = "Pipeline" => Cardinality(BackendCalls) <= 3

\* a query of Pipe that issued all four calls
C17_Witness ==
    /\ variant = "Pipe"
    /\ pc = "done"
    /\ Cardinality(BackendCalls) = 4
    /\ outcome[1].kind = "str"

----------------------------------------------------------------------------
(* Properties of the conversation history *)

HistoryFormatted ==
    /\ fn_call.fn \in {"_format_conversation_history", "_format_history"}
    /\ ~IsNone(fn_result)

\* the n most recent messages that precede the last one, oldest first
RecentBefore(messages, n) ==
    LET prior == IF messages = <<>> THEN <<>> ELSE SubSeq(messages, 1, Len(messages) - 1)
    IN  SubSeq(prior, IF Len(prior) > n THEN Len(prior) - n + 1 ELSE 1, Len(prior))

\* C18: for every message list and every maximum N >= 0 the formatted history
\* of Pipe has at most N turns, they are the user and assistant turns among the
\* N most recent messages before the last message, in their order, and the
\* last message is not among them; the history of Pipeline, which has no
\* maximum, is made of the turns before the last message.
C18_HistoryBounded ==
    HistoryFormatted =>
        IF fn_call.fn = "_format_conversation_history"
        THEN /\ Len(fn_result[1].turns) <= fn_call.arg.max_history_messages
             /\ fn_call.arg.use_conversation_history =>
                  fn_result[1].turns =
                      format_turns(RecentBefore(fn_call.arg.messages,
                                                fn_call.arg.max_history_messages))
        ELSE fn_result[1].turns =
                 format_turns(RecentBefore(fn_call.arg.messages, Len(fn_call.arg.messages)))

----------------------------------------------------------------------------
(* Properties of the status emissions *)

\* the call handed its event to the emitter
Attempted(i) == ~IsNone(status_log[i].event)

\* the emitter took the event of the call without raising
Delivered(i) == Attempted(i) /\ ~status_log[i].raised

\* C19: over every interleaving of the emit_status calls of the queries of one
\* instance, two delivered non-final emissions are at least emit_interval
\* apart, and every final call (done = true) that was given an emitter while
\* the status indicator is enabled is handed to the emitter.
C19_RateLimited ==
    /\ \A i, j \in 1..Len(status_log) :
          (i < j /\ Delivered(i) /\ Delivered(j)
                 /\ ~status_log[i].done /\ ~status_log[j].done)
              => status_log[j].at - status_log[i].at >= valves.emit_interval
    /\ \A i \in 1..Len(status_log) :
          (status_log[i].done /\ status_log[i].emitter /\ valves.enable_status_indicator)
              => Attempted(i)

----------------------------------------------------------------------------
(* Properties of citation attribution *)

CitationsReturned == fn_call.fn = "_generate_citations" /\ ~IsNone(fn_result)

\* C20: citation attribution returns the answer unchanged and issues no model
\* call when citations are disabled, whatever the passage list, and when the
\* passage list is empty, even with citations enabled.
C20_SkippedUnchanged ==
    (CitationsReturned
        /\ (~valves.enable_citations \/ fn_call.arg.retrieved_results = <<>>))
    => /\ fn_result[1] = fn_call.arg.answer
       /\ trace = <<>>
       /\ IsNone(last_response)

C20_Witness ==
    /\ CitationsReturned
    /\ valves.enable_citations
    /\ fn_call.arg.retrieved_results = <<>>
    /\ fn_result[1] = "Test answer"
    /\ trace = <<>>

----------------------------------------------------------------------------
(* Properties of parse_name_elements *)

NameParsed == fn_call.fn = "parse_name_elements" /\ ~IsNone(fn_result)

\* the tokens of a name, in order, whitespace left out
RECURSIVE TokensOf(_)
TokensOf(name) ==
    IF name = <<>> THEN <<>>
    ELSE IF Head(name).space THEN TokensOf(Tail(name))
    ELSE <<Head(name)>> \o TokensOf(Tail(name))

\* C21: parse_name_elements gives the whitespace-separated tokens of the name
\* as written and in order, without the leading token when that token is an
\* honorific title in any letter case, with or without a period; a name that
\* is empty, only whitespace or only a title gives the empty sequence.
C21_NameElements ==
    NameParsed =>
        LET toks == TokensOf(fn_call.arg)
            titled == toks # <<>> /\ toks[1].lower \in Titles
        IN  /\ fn_result[1] = IF titled THEN SubSeq(toks, 2, Len(toks)) ELSE toks
            /\ \A i \in 1..Len(fn_result[1]) : ~fn_result[1][i].space
            /\ (toks = <<>> \/ (titled /\ Len(toks) = 1)) => fn_result[1] = <<>>

C21_Witness ==
    /\ NameParsed
    /\ fn_call.arg = <<NameToken("PROF", "prof", TRUE), Space, NameToken("JOHN", "john", FALSE),
                       Space, NameToken("smith", "smith", FALSE)>>
    /\ fn_result[1] = <<NameToken("JOHN", "john", FALSE), NameToken("smith", "smith", FALSE)>>

----------------------------------------------------------------------------
(* Properties of the enhanced query *)

QueryEnhanced == fn_call.fn = "enhanced_query" /\ ~IsNone(fn_result)

\* where the first occurrence of a phrase ends in the user's text: 0 for the
\* empty phrase, -1 when the phrase does not occur
FirstEnd(query, phrase) ==
    LET occurrences == {i \in 1..(Len(query) - Len(phrase) + 1) :
                           SubSeq(query, i, i + Len(phrase) - 1) = phrase}
    IN  IF occurrences = {} THEN -1
        ELSE (CHOOSE k \in occurrences : \A o \in occurrences : k <= o) + Len(phrase) - 1

\* the annotations that belong after position k of the user's text, the one
\* of a later range first, from range i down
RECURSIVE AnnotationsAt(_, _, _, _)
AnnotationsAt(query, refs, k, i) ==
    IF i = 0 THEN <<>>
    ELSE (IF FirstEnd(query, refs[i].original) = k THEN annotation(refs[i]) ELSE <<>>)
         \o AnnotationsAt(query, refs, k, i - 1)

\* the user's text from position k on with every annotation after its phrase
RECURSIVE AnnotatedFrom(_, _, _)
AnnotatedFrom(query, refs, k) ==
    IF k > Len(query) THEN <<>>
    ELSE (IF k = 0 THEN <<>> ELSE <<query[k]>>)
         \o AnnotationsAt(query, refs, k, Len(refs))
         \o AnnotatedFrom(query, refs, k + 1)

\* C22: the enhanced query is the user's text in which, for each resolved
\* range, "(from <start_iso> to <end_iso>)" stands after the first occurrence
\* of that range's phrase in the user's text; later occurrences carry nothing
\* and no annotation stands inside another annotation.
C22_AnnotatedAfterOwnPhrase ==
    QueryEnhanced =>
        fn_result[1] = AnnotatedFrom(fn_call.arg.query, fn_call.arg.datetime_refs, 0)

----------------------------------------------------------------------------
(* Properties of a failed date/time extraction *)

ExtractionGaveNothing ==
    /\ variant = "Pipe"
    /\ HasStep("invoke_model:extract_datetime")
    /\ datetime_refs = <<>>

FilterCallEvents == {i \in 1..Len(trace) : trace[i].step = "invoke_model:generate_filter"}

\* C23: when the date/time extraction fails or resolves no range, the query
\* does not fail there: the filter generation call is issued once, its prompt
\* carries the query without annotation and without a date-time context block,
\* and the query goes on to the retrieve call.
C23_ExtractionFailsSoft ==
    ExtractionGaveNothing =>
        \/ pc = "filter_call" /\ FilterCallEvents = {}
        \/ /\ Cardinality(FilterCallEvents) = 1
           /\ \A i \in FilterCallEvents :
                 trace[i].detail = Some([datetime_context |-> FALSE, annotated |-> <<>>])
           /\ (pc = "retrieve" \/ HasStep("retrieve"))

C23_Witness ==
    /\ ExtractionGaveNothing
    /\ last_response # None
    /\ trace # <<>>
    /\ LastStep = "retrieve"
    /\ ~IsNone(metadata_filter)
    /\ Cardinality(FilterCallEvents) = 1

----------------------------------------------------------------------------
(* Properties of the document numbers *)

\* the context of the request was assembled from retrieved_results
ContextBuilt ==
    /\ HasStep("assemble_context")
    /\ variant = "Pipe" => ~Raised(extract_filter_keys(metadata_filter))

\* C24: the documents of the context are in retrieval order; the number of a
\* document is the 1-based position of its passage in the retrieval results,
\* so the numbers increase strictly and the positions of results without text
\* are skipped, not reused.
C24_DocumentNumbers ==
    ContextBuilt =>
        /\ {context[k].index : k \in 1..Len(context)}
              = {i \in 1..Len(retrieved_results) : has_text(retrieved_results[i])}
        /\ \A k \in 1..Len(context) :
              context[k].content = retrieved_results[context[k].index].content[1].text[1]
        /\ \A k, l \in 1..Len(context) : k < l => context[k].index < context[l].index

C24_Witness ==
    /\ ContextBuilt
    /\ Len(retrieved_results) = 2
    /\ ~has_text(retrieved_results[1])
    /\ Len(context) = 1
    /\ context[1].index = 2

----------------------------------------------------------------------------
(* Properties of the filter schema *)

FilterOperators ==
    {"equals", "notEquals", "in", "notIn", "greaterThan", "greaterThanOrEquals",
     "lessThan", "lessThanOrEquals", "stringContains"}

\* a filter tree whose leaf operators are in the fixed set
RECURSIVE IsMetadataFilter(_)
IsMetadataFilter(t) ==
    /\ IsFilterTree(t)
    /\ IF IsBranch(t)
       THEN \A i \in 1..Len(t.members[NodeOp(t)].items) :
               IsMetadataFilter(t.members[NodeOp(t)].items[i])
       ELSE NodeOp(t) \in FilterOperators

\* C25: a filter model answer that is valid JSON but not a well-formed
\* MetadataFilter (unknown operator, or a list, number or string) gives no
\* filter: every filter handed to the retrieve call of Pipe is well-formed.
C25_OnlyWellFormedFilters ==
    variant = "Pipe" =>
        \A i \in 1..Len(trace) :
            (trace[i].step = "retrieve" /\ ~IsNone(trace[i].detail))
                => IsMetadataFilter(trace[i].detail[1])

----------------------------------------------------------------------------
(* Properties of the request parameters *)

\* C26: whatever valves were constructed or assigned, every generation
\* request carries a temperature and a top_p within [0, 1] (0..10 tenths) and
\* every retrieve request a result count within 1..100.
C26_ParametersInRange ==
    \A i \in 1..Len(trace) :
        /\ (trace[i].step = "invoke_model:generate_answer" /\ ~IsNone(trace[i].detail))
              => /\ trace[i].detail[1].temperature \in 0..10
                 /\ trace[i].detail[1].top_p \in 0..10
        /\ (trace[i].step = "retrieve" /\ ~IsNone(trace[i].detail))
              => trace[i].detail[1].numberOfResults \in 1..100

----------------------------------------------------------------------------
(* Properties of client initialization *)

\* the flag is set only with both handles
HandlesSet ==
    clients_initialized => (~IsNone(bedrock_client) /\ ~IsNone(bedrock_agent_client))

\* an initialization that raised has left the flag false
FailureLeavesFlagFalse ==
    (trace # <<>> /\ trace[Len(trace)].step = "raise") => ~clients_initialized

\* trace[i] is the creation of a session or of a client
IsCreation(i) == trace[i].step \in {"boto3.Session", "session.client"}

\* trace[i] completes a successful initialization: the agent client is the
\* last object created
IsSuccess(i) ==
    /\ trace[i].step = "session.client"
    /\ trace[i].detail = Some("bedrock-agent-runtime")

\* nothing is created after a successful initialization
NeverRecreated ==
    \A i \in 1..Len(trace) : \A j \in 1..Len(trace) :
        (i < j /\ IsSuccess(i)) => ~IsCreation(j)

\* a step that is a plain call of _initialize_clients made with the flag set
\* creates nothing and leaves the flag and both handles as they were
GuardedCall ==
    (/\ clients_initialized
     /\ Len(trace') > Len(trace)
     /\ trace'[Len(trace) + 1].step = "_initialize_clients")
        => /\ Len(trace') = Len(trace) + 1
           /\ UNCHANGED client_vars

\* C27 as stated: the flag implies both handles; once an initialization has
\* succeeded no later _initialize_clients call creates a session or a client;
\* a failed initialization leaves the flag false.
C27_LazyIdempotent ==
    HandlesSet /\ FailureLeavesFlagFalse /\ NeverRecreated

\* C27 amended: the flag implies both handles; a _initialize_clients call made
\* while the flag is set creates no session or client and leaves both handles
\* unchanged (Pipeline.on_valves_updated clears the flag first, so its call
\* creates a new session and new clients); a failed initialization leaves the
\* flag false.
C27_IdempotentWhileFlagSet ==
    [](HandlesSet /\ FailureLeavesFlagFalse) /\ [][GuardedCall]_vars

\* a call of _initialize_clients directly follows a successful initialization
\* and the flag is set
C27_Witness ==
    /\ clients_initialized
    /\ \E i \in 1..Len(trace) - 1 :
          IsSuccess(i) /\ trace[i + 1].step = "_initialize_clients"

----------------------------------------------------------------------------
(* Properties of Pipe.pipe with its status emissions *)

\* the invocation of Pipe.pipe by query q has returned (a string or the
\* error wrapper)
PipeReturned(q) ==
    /\ fn_call[q].fn = "pipe"
    /\ ~IsNone(outcome[q])
    /\ outcome[q][1].kind \in {"str", "error"}

\* C3: every invocation of Pipe.pipe ends with a string or the
\* {"error": message} wrapper, never with an escaped exception
C3_PipeTotal ==
    \A q \in Queries :
        (fn_call[q].fn = "pipe" /\ ~IsNone(outcome[q])) =>
            outcome[q][1].kind \in {"str", "error"}

ConfigurationMissing ==
    ~valves.aws_access_key_id \/ ~valves.aws_secret_access_key \/ ~valves.knowledge_base_id

\* C15: with a missing access key, secret key or knowledge base ID no
\* invocation of Pipe.pipe reaches query_knowledge_base (no client is
\* initialized, no model or retrieval call is made) and every invocation that
\* has ended has ended with the configuration error
C15_ConfigErrorReported ==
    ConfigurationMissing =>
        /\ ~clients_initialized /\ IsNone(bedrock_client) /\ IsNone(bedrock_agent_client)
        /\ \A q \in Queries :
              /\ pc[q] # "query" /\ IsNone(kb_response[q])
              /\ (fn_call[q].fn = "pipe" /\ ~IsNone(outcome[q])) =>
                    outcome[q][1] \in {ErrorWrapper(CredentialsMessage),
                                       ErrorWrapper(KnowledgeBaseMessage)}

\* C28: every invocation of Pipe.pipe that returns leaves the messages it was
\* given, unchanged and in order, followed by exactly one assistant message
\* whose content is the returned answer or the message of the error wrapper.
C28_OneAssistantMessage ==
    \A q \in Queries :
        PipeReturned(q) =>
            /\ ~IsNone(fn_call[q].arg[1].body.messages)
            /\ body[q] = append_assistant(fn_call[q].arg[1].body, outcome[q][1].value)

\* C29: in every invocation of Pipe.pipe that has ended, exactly one
\* emit_status call has done = TRUE and it is the last call of the invocation.
C29_OneFinalStatus ==
    \A q \in Queries :
        (fn_call[q].fn = "pipe" /\ ~IsNone(outcome[q])) =>
            /\ Cardinality({i \in 1..Len(status_log[q]) : status_log[q][i].done}) = 1
            /\ status_log[q][Len(status_log[q])].done

----------------------------------------------------------------------------
(* Properties of set_pipelines *)

PipelinesSet == fn_call.fn = "set_pipelines" /\ ~IsNone(fn_result)

\* the maximal runs of characters other than ";" in s, in order
Runs(s) ==
    LET starts == {i \in 1..Len(s) : s[i] # ";" /\ (i = 1 \/ s[i - 1] = ";")}
        start(k) == CHOOSE i \in starts : Cardinality({j \in starts : j < i}) = k - 1
        end(i) == CHOOSE j \in i..Len(s) :
                      /\ \A m \in i..j : s[m] # ";"
                      /\ (j = Len(s) \/ s[j + 1] = ";")
    IN [k \in 1..Cardinality(starts) |-> SubSeq(s, start(k), end(start(k)))]

\* C30: set_pipelines pairs the non-empty IDs with the non-empty names by
\* position, min(number of IDs, number of names) entries in configured order;
\* when that pairing is empty and there is an ID, every ID is an entry named
\* by itself; with at least one name the IDs beyond the names are dropped.
C30_PairedByPosition ==
    PipelinesSet =>
        LET ids == Runs(fn_call.arg.knowledge_base_ids)
            names == Runs(fn_call.arg.knowledge_base_names)
            pipelines == fn_result[1]
        IN
        IF names = <<>>
        THEN /\ Len(pipelines) = Len(ids)
             /\ \A k \in 1..Len(ids) : pipelines[k] = [id |-> ids[k], name |-> ids[k]]
        ELSE /\ Len(pipelines) = IF Len(ids) < Len(names) THEN Len(ids) ELSE Len(names)
             /\ \A k \in 1..Len(pipelines) :
                    pipelines[k] = [id |-> ids[k], name |-> names[k]]

\* three IDs and one name: one entry; and the fallback is covered by
\* C30_FallbackWitness below
C30_Witness ==
    /\ PipelinesSet
    /\ fn_call.arg.knowledge_base_ids = <<"a", ";", "b", ";", "a">>
    /\ fn_call.arg.knowledge_base_names = <<"x">>
    /\ fn_result[1] = <<[id |-> <<"a">>, name |-> <<"x">>]>>
====
